---------------------------- MODULE Spec2Model ----------------------------
(***************************************************************************)
(* A model of the JWT claims-to-headers middleware: token decoding         *)
(* (jwt.go), claim path resolution and serialization (claims.go), header   *)
(* sanitization and injection (headers.go), configuration validation       *)
(* (Config.Validate) and the request pipeline (JWTClaimsHeaders.ServeHTTP).*)
(*                                                                         *)
(* Go strings are modelled as sequences of units: a unit n >= 0 is the     *)
(* code point n of a well-formed UTF-8 encoding, a unit n < 0 is the       *)
(* single byte -n that is not part of any well-formed encoding.            *)
(***************************************************************************)
EXTENDS Integers, Sequences, FiniteSets, TLC

VARIABLES
    pc,       \* position of the operation under way
    arg,      \* inputs of the pure function called (function specifications)
    ret,      \* what the function returned
    req,      \* the request's header collection (http.Header)
    arrival,  \* the request's header collection as it arrived
    config,   \* the Config the handler was built from
    inv       \* the ServeHTTP invocation under way

vars == <<pc, arg, ret, req, arrival, config, inv>>

\* what a variable holds while the specification at hand does not use it
NoCall == [op |-> "none"]
NoHeaders == <<>>
NoConfig == [SourceHeader |-> <<>>]
NoInvocation == [pc |-> "none"]

---------------------------------------------------------------------------
(* Bounds of the model.                                                    *)

\* longest header / claim value drawn as an input
MaxValueLen == 3
\* largest maxSize / maxHeaderSize drawn as an input
MaxSizeBound == 4
\* longest claim path drawn as an input, in characters
MaxPathLen == 5
\* largest maxDepth drawn as an input
MaxDepthBound == 3
\* longest list of claim mappings of a drawn configuration
MaxMappings == 2
\* the most segments of a token drawn for ParseJWT
MaxSegments == 4
\* the longest header value and the longest prefix drawn for ExtractToken
MaxTokenLen == 4
MaxPrefixLen == 2

---------------------------------------------------------------------------
(* Text.                                                                   *)

Printable ==
    << " ", "!", "\"", "#", "$", "%", "&", "'", "(", ")", "*", "+", ",", "-", ".", "/",
       "0", "1", "2", "3", "4", "5", "6", "7", "8", "9", ":", ";", "<", "=", ">", "?",
       "@", "A", "B", "C", "D", "E", "F", "G", "H", "I", "J", "K", "L", "M", "N", "O",
       "P", "Q", "R", "S", "T", "U", "V", "W", "X", "Y", "Z", "[", "\\", "]", "^", "_",
       "GRAVE", "a", "b", "c", "d", "e", "f", "g", "h", "i", "j", "k", "l", "m", "n", "o",
       "p", "q", "r", "s", "t", "u", "v", "w", "x", "y", "z", "{", "|", "}", "~" >>

\* the ASCII code of a one-character string
Code(c) == 31 + (CHOOSE i \in 1..Len(Printable) : Printable[i] = c)

\* the Go string spelled by a tuple of one-character strings
S(t) == [i \in 1..Len(t) |-> Code(t[i])]

BoundedSeq(A, n) == UNION {[1..k -> A] : k \in 0..n}

\* len(s): the byte length of a Go string
RuneLen(u) ==
    IF u < 0 THEN 1
    ELSE IF u < 128 THEN 1
    ELSE IF u < 2048 THEN 2
    ELSE IF u < 65536 THEN 3
    ELSE 4

RECURSIVE ByteLen(_)
ByteLen(s) == IF s = <<>> THEN 0 ELSE RuneLen(Head(s)) + ByteLen(Tail(s))

\* utf8.RuneError: what ranging over a string yields for a byte that is not
\* part of a well-formed encoding
RuneError == 65533

\* unicode.IsSpace
IsSpace(r) ==
    \/ r \in {9, 10, 11, 12, 13, 32, 133, 160, 5760, 8232, 8233, 8239, 8287, 12288}
    \/ r \in 8192..8202

\* strings.TrimSpace
RECURSIVE TrimLeft(_)
TrimLeft(s) ==
    IF s # <<>> /\ IsSpace(Head(s)) THEN TrimLeft(Tail(s)) ELSE s

RECURSIVE TrimRight(_)
TrimRight(s) ==
    IF s # <<>> /\ IsSpace(s[Len(s)])
    THEN TrimRight(SubSeq(s, 1, Len(s) - 1))
    ELSE s

TrimSpace(s) == TrimRight(TrimLeft(s))

\* strings.ToLower, on the ASCII letters
ToLowerRune(r) == IF r \in 65..90 THEN r + 32 ELSE r

ToLower(s) == [i \in 1..Len(s) |-> ToLowerRune(s[i])]

ToUpperRune(r) == IF r \in 97..122 THEN r - 32 ELSE r

---------------------------------------------------------------------------
(* http.Header: canonical key -> list of values.                           *)

\* textproto's validHeaderFieldByte: the token characters of RFC 7230
validHeaderFieldByte(c) ==
    \/ c \in 48..57
    \/ c \in 65..90
    \/ c \in 97..122
    \/ c \in {33, 35, 36, 37, 38, 39, 42, 43, 45, 46, 94, 95, 96, 124, 126}

\* textproto.CanonicalMIMEHeaderKey: a key holding a byte that is no token
\* character is left as it is; otherwise the first letter and every letter
\* after a '-' is upper-cased and the others lower-cased
CanonicalMIMEHeaderKey(s) ==
    IF \E i \in 1..Len(s) : ~validHeaderFieldByte(s[i])
    THEN s
    ELSE [i \in 1..Len(s) |->
            IF i = 1 \/ s[i - 1] = 45
            THEN ToUpperRune(s[i])
            ELSE ToLowerRune(s[i])]

\* Header.Get: the first value of the key, "" when there is none
HeaderGet(h, name) ==
    LET k == CanonicalMIMEHeaderKey(name)
    IN  IF k \in DOMAIN h /\ Len(h[k]) > 0 THEN h[k][1] ELSE <<>>

\* Header.Set: the key's values become the single value given
HeaderSet(h, name, value) ==
    LET k == CanonicalMIMEHeaderKey(name)
    IN  [x \in DOMAIN h \cup {k} |-> IF x = k THEN <<value>> ELSE h[x]]

\* Header.Del
HeaderDel(h, name) ==
    LET k == CanonicalMIMEHeaderKey(name)
    IN  [x \in DOMAIN h \ {k} |-> h[x]]

---------------------------------------------------------------------------
(* headers.go                                                              *)

protectedHeaders ==
    { S(<<"h","o","s","t">>),
      S(<<"x","-","f","o","r","w","a","r","d","e","d","-","f","o","r">>),
      S(<<"x","-","f","o","r","w","a","r","d","e","d","-","h","o","s","t">>),
      S(<<"x","-","f","o","r","w","a","r","d","e","d","-","p","r","o","t","o">>),
      S(<<"x","-","f","o","r","w","a","r","d","e","d","-","p","o","r","t">>),
      S(<<"x","-","r","e","a","l","-","i","p">>),
      S(<<"c","o","n","t","e","n","t","-","l","e","n","g","t","h">>),
      S(<<"c","o","n","t","e","n","t","-","t","y","p","e">>),
      S(<<"t","r","a","n","s","f","e","r","-","e","n","c","o","d","i","n","g">>) }

\* a guard that compares the name as written
IsProtectedHeaderCaseSensitive(name) == name \in protectedHeaders

IsProtectedHeader(name) == ToLower(name) \in protectedHeaders

\* a filter that drops CR and LF only
RECURSIVE StripCRLFOnly(_)
StripCRLFOnly(s) ==
    IF s = <<>> THEN <<>>
    ELSE LET c == IF Head(s) < 0 THEN RuneError ELSE Head(s)
         IN  IF c \in {10, 13}
             THEN StripCRLFOnly(Tail(s))
             ELSE <<c>> \o StripCRLFOnly(Tail(s))

\* strings.Map with the control-character filter of SanitizeHeaderValue: a
\* rune below 0x20 or equal to 0x7F is dropped, any other rune is kept; a
\* byte that is not part of a well-formed encoding ranges as utf8.RuneError
\* and is written back as the encoding of U+FFFD
RECURSIVE StripControl(_)
StripControl(s) ==
    IF s = <<>> THEN <<>>
    ELSE LET c == IF Head(s) < 0 THEN RuneError ELSE Head(s)
         IN  IF c < 32 \/ c = 127
             THEN StripControl(Tail(s))
             ELSE <<c>> \o StripControl(Tail(s))

\* trims before it strips
SanitizeTrimFirst(value, maxSize) ==
    IF ByteLen(value) > maxSize
    THEN [err |-> "size", value |-> <<>>]
    ELSE [err |-> "none", value |-> StripControl(TrimSpace(value))]

\* measures the sanitized value against the limit, not the raw one
SanitizeSizeAfter(value, maxSize) ==
    IF ByteLen(TrimSpace(StripControl(value))) > maxSize
    THEN [err |-> "size", value |-> <<>>]
    ELSE [err |-> "none", value |-> TrimSpace(StripControl(value))]

\* SanitizeHeaderValue: (sanitized, error)
SanitizeHeaderValue(value, maxSize) ==
    IF ByteLen(value) > maxSize
    THEN [err |-> "size", value |-> <<>>]
    ELSE [err |-> "none", value |-> TrimSpace(StripControl(value))]

\* InjectHeader without the collision check
InjectHeaderAlwaysSet(h, name, value, override, maxSize) ==
    IF IsProtectedHeader(name)
    THEN [err |-> "none", header |-> h]
    ELSE LET san == SanitizeHeaderValue(value, maxSize)
         IN  IF san.err # "none"
             THEN [err |-> san.err, header |-> h]
             ELSE [err |-> "none", header |-> HeaderSet(h, name, san.value)]

\* InjectHeader that checks the value and then sets it as it was given
InjectHeaderRaw(h, name, value, override, maxSize) ==
    IF IsProtectedHeader(name)
    THEN [err |-> "none", header |-> h]
    ELSE LET san == SanitizeHeaderValue(value, maxSize)
         IN  IF san.err # "none"
             THEN [err |-> san.err, header |-> h]
             ELSE IF HeaderGet(h, name) # <<>> /\ ~override
                  THEN [err |-> "none", header |-> h]
                  ELSE [err |-> "none", header |-> HeaderSet(h, name, value)]

\* InjectHeader with the collision check ahead of the sanitization
InjectHeaderCollisionFirst(h, name, value, override, maxSize) ==
    IF IsProtectedHeader(name)
    THEN [err |-> "none", header |-> h]
    ELSE IF HeaderGet(h, name) # <<>> /\ ~override
    THEN [err |-> "none", header |-> h]
    ELSE LET san == SanitizeHeaderValue(value, maxSize)
         IN  IF san.err # "none"
             THEN [err |-> san.err, header |-> h]
             ELSE [err |-> "none", header |-> HeaderSet(h, name, san.value)]

\* InjectHeader: (error, the request's headers afterwards)
InjectHeader(h, name, value, override, maxSize) ==
    IF IsProtectedHeader(name)
    THEN [err |-> "none", header |-> h]
    ELSE LET san == SanitizeHeaderValue(value, maxSize)
         IN  IF san.err # "none"
             THEN [err |-> san.err, header |-> h]
             ELSE IF HeaderGet(h, name) # <<>> /\ ~override
                  THEN [err |-> "none", header |-> h]
                  ELSE [err |-> "none", header |-> HeaderSet(h, name, san.value)]


---------------------------------------------------------------------------
(* Dynamic values and strings.Split.                                       *)

\* The dynamic values json.Unmarshal produces: string, bool, float64, nil,
\* []interface{} and map[string]interface{} (key -> value).
VString(s) == [t |-> "string", s |-> s]
VBool(b) == [t |-> "bool", b |-> b]
VNumber(n) == [t |-> "number", n |-> n]
Nil == [t |-> "nil"]
VArray(l) == [t |-> "array", l |-> l]
VObject(m) == [t |-> "object", m |-> m]

\* strings.Split(s, sep) for a one-character separator
RECURSIVE SplitFrom(_, _, _)
SplitFrom(s, sep, cur) ==
    IF s = <<>> THEN <<cur>>
    ELSE IF Head(s) = sep
         THEN <<cur>> \o SplitFrom(Tail(s), sep, <<>>)
         ELSE SplitFrom(Tail(s), sep, Append(cur, Head(s)))

Split(s, sep) == SplitFrom(s, sep, <<>>)

Dot == Code(".")

---------------------------------------------------------------------------
(* jwt.go                                                                  *)

\* strings.HasPrefix
HasPrefix(s, prefix) ==
    Len(s) >= Len(prefix) /\ SubSeq(s, 1, Len(prefix)) = prefix

\* strings.TrimPrefix
TrimPrefix(s, prefix) ==
    IF HasPrefix(s, prefix) THEN SubSeq(s, Len(prefix) + 1, Len(s)) ELSE s

\* a prefix check that ignores case
ExtractTokenFoldCase(value, prefix) ==
    IF prefix = <<>> THEN value
    ELSE IF ~HasPrefix(ToLower(value), ToLower(prefix)) THEN value
    ELSE TrimSpace(SubSeq(value, Len(prefix) + 1, Len(value)))

ExtractToken(value, prefix) ==
    IF prefix = <<>> THEN value
    ELSE IF ~HasPrefix(value, prefix) THEN value
    ELSE TrimSpace(TrimPrefix(value, prefix))

\* the value of a character in the URL alphabet of base64, -1 for any other
B64Value(c) ==
    IF c \in 65..90 THEN c - 65
    ELSE IF c \in 97..122 THEN c - 71
    ELSE IF c \in 48..57 THEN c + 4
    ELSE IF c = 45 THEN 62
    ELSE IF c = 95 THEN 63
    ELSE -1

\* base64.RawURLEncoding.DecodeString: CR and LF are skipped, any character
\* outside the alphabet ('=' included) and a final group of one character
\* are errors; the unused low bits of a final group are not checked
Base64RawURLDecode(seg) ==
    LET kept == SelectSeq(seg, LAMBDA c : c \notin {10, 13})
        n == Len(kept)
        v(i) == IF i <= n THEN B64Value(kept[i]) ELSE 0
        word(g) == v(4*g + 1) * 262144 + v(4*g + 2) * 4096 + v(4*g + 3) * 64 + v(4*g + 4)
        shift(p) == IF p = 0 THEN 65536 ELSE IF p = 1 THEN 256 ELSE 1
    IN  IF (\E i \in 1..n : B64Value(kept[i]) < 0) \/ n % 4 = 1
        THEN [err |-> "encoding", bytes |-> <<>>]
        ELSE [err |-> "none",
              bytes |-> [j \in 1..((n * 6) \div 8) |->
                            (word((j - 1) \div 3) \div shift((j - 1) % 3)) % 256]]

(* encoding/json: the text is scanned as JSON (objects, arrays, strings   *)
(* with the escapes \" \\ \/ \b \f \n \r \t, integers, true, false, null,  *)
(* white space between tokens). A parse result is [ok, v, i]: the value    *)
(* and the position after it.                                              *)
JFail == [ok |-> FALSE, v |-> Nil, i |-> 0]
JOk(v, i) == [ok |-> TRUE, v |-> v, i |-> i]

JWhite(c) == c \in {9, 10, 13, 32}

RECURSIVE JSkip(_, _)
JSkip(b, i) == IF i <= Len(b) /\ JWhite(b[i]) THEN JSkip(b, i + 1) ELSE i

JLiteral(b, i, text, v) ==
    IF i + Len(text) - 1 <= Len(b) /\ SubSeq(b, i, i + Len(text) - 1) = text
    THEN JOk(v, i + Len(text))
    ELSE JFail

JEscape(c) ==
    IF c \in {34, 92, 47} THEN c
    ELSE IF c = 98 THEN 8
    ELSE IF c = 102 THEN 12
    ELSE IF c = 110 THEN 10
    ELSE IF c = 114 THEN 13
    ELSE IF c = 116 THEN 9
    ELSE -1

\* the characters of a string from position i (after the opening quote): a
\* raw control character is a syntax error, a byte above 0x7F that is not
\* well-formed UTF-8 is read as U+FFFD
RECURSIVE JString(_, _, _)
JString(b, i, acc) ==
    IF i > Len(b) THEN JFail
    ELSE IF b[i] = 34 THEN JOk(VString(acc), i + 1)
    ELSE IF b[i] < 32 THEN JFail
    ELSE IF b[i] = 92
         THEN IF i + 1 > Len(b) \/ JEscape(b[i + 1]) < 0
              THEN JFail
              ELSE JString(b, i + 2, Append(acc, JEscape(b[i + 1])))
    ELSE IF b[i] >= 128
         THEN IF /\ b[i] \in 194..223
                 /\ i + 1 <= Len(b)
                 /\ b[i + 1] \in 128..191
              THEN JString(b, i + 2, Append(acc, (b[i] - 192) * 64 + (b[i + 1] - 128)))
              ELSE JString(b, i + 1, Append(acc, RuneError))
    ELSE JString(b, i + 1, Append(acc, b[i]))

RECURSIVE JDigits(_, _, _)
JDigits(b, i, n) ==
    IF i <= Len(b) /\ b[i] \in 48..57
    THEN JDigits(b, i + 1, 10 * n + (b[i] - 48))
    ELSE [n |-> n, i |-> i]

\* an integer: an optional '-', then 0 or a digit 1-9 followed by digits
JNumber(b, i) ==
    LET neg == b[i] = 45
        j == IF neg THEN i + 1 ELSE i
    IN  IF j > Len(b) \/ b[j] \notin 48..57 THEN JFail
        ELSE IF b[j] = 48 THEN JOk(VNumber(0), j + 1)
        ELSE LET d == JDigits(b, j, 0)
             IN  JOk(VNumber(IF neg THEN 0 - d.n ELSE d.n), d.i)

RECURSIVE JValue(_, _)
RECURSIVE JElements(_, _, _)
RECURSIVE JMembers(_, _, _)

\* the elements of an array from position i (the first element, or the
\* element after a comma)
JElements(b, i, acc) ==
    LET e == JValue(b, i)
        j == JSkip(b, e.i)
    IN  IF ~e.ok \/ j > Len(b) THEN JFail
        ELSE IF b[j] = 93 THEN JOk(VArray(Append(acc, e.v)), j + 1)
        ELSE IF b[j] = 44 THEN JElements(b, j + 1, Append(acc, e.v))
        ELSE JFail

\* the members of an object from position i; a repeated key keeps the last
\* value
JMembers(b, i, acc) ==
    LET k == JSkip(b, i)
    IN  IF k > Len(b) \/ b[k] # 34 THEN JFail
        ELSE LET key == JString(b, k + 1, <<>>)
                 c == JSkip(b, key.i)
             IN  IF ~key.ok \/ c > Len(b) \/ b[c] # 58 THEN JFail
                 ELSE LET val == JValue(b, c + 1)
                          j == JSkip(b, val.i)
                          m == [x \in DOMAIN acc \cup {key.v.s} |->
                                   IF x = key.v.s THEN val.v ELSE acc[x]]
                      IN  IF ~val.ok \/ j > Len(b) THEN JFail
                          ELSE IF b[j] = 125 THEN JOk(VObject(m), j + 1)
                          ELSE IF b[j] = 44 THEN JMembers(b, j + 1, m)
                          ELSE JFail

JValue(b, i0) ==
    LET i == JSkip(b, i0)
    IN  IF i > Len(b) THEN JFail
        ELSE IF b[i] = 123
             THEN LET j == JSkip(b, i + 1)
                  IN  IF j <= Len(b) /\ b[j] = 125
                      THEN JOk(VObject(<<>>), j + 1)
                      ELSE JMembers(b, i + 1, <<>>)
        ELSE IF b[i] = 91
             THEN LET j == JSkip(b, i + 1)
                  IN  IF j <= Len(b) /\ b[j] = 93
                      THEN JOk(VArray(<<>>), j + 1)
                      ELSE JElements(b, i + 1, <<>>)
        ELSE IF b[i] = 34 THEN JString(b, i + 1, <<>>)
        ELSE IF b[i] = 116 THEN JLiteral(b, i, S(<<"t","r","u","e">>), VBool(TRUE))
        ELSE IF b[i] = 102 THEN JLiteral(b, i, S(<<"f","a","l","s","e">>), VBool(FALSE))
        ELSE IF b[i] = 110 THEN JLiteral(b, i, S(<<"n","u","l","l">>), Nil)
        ELSE IF b[i] = 45 \/ b[i] \in 48..57 THEN JNumber(b, i)
        ELSE JFail

\* json.Unmarshal(data, &m) for m a nil map[string]interface{}: a text that
\* is not JSON is a syntax error; the JSON null leaves the map nil and is no
\* error; any other JSON value that is not an object is a type error
JSONUnmarshalMap(data) ==
    LET r == JValue(data, 1)
    IN  IF ~r.ok \/ JSkip(data, r.i) <= Len(data)
        THEN [err |-> "syntax", m |-> <<>>]
        ELSE IF r.v.t = "nil" THEN [err |-> "none", m |-> <<>>]
        ELSE IF r.v.t = "object" THEN [err |-> "none", m |-> r.v.m]
        ELSE [err |-> "type", m |-> <<>>]

NoJWT == [Header |-> <<>>, Payload |-> <<>>, Signature |-> <<>>]

KAlg == S(<<"a","l","g">>)

\* a parse that asks for at least three segments and ignores the others
ParseJWTAtLeastThree(token, strictMode) ==
    LET segments == Split(token, Dot)
    IN  IF Len(segments) < 3
        THEN [err |-> "format", jwt |-> NoJWT]
        ELSE LET headerBytes == Base64RawURLDecode(segments[1])
                 payloadBytes == Base64RawURLDecode(segments[2])
                 header == JSONUnmarshalMap(headerBytes.bytes)
                 payload == JSONUnmarshalMap(payloadBytes.bytes)
             IN  IF headerBytes.err # "none" THEN [err |-> "encoding", jwt |-> NoJWT]
                 ELSE IF payloadBytes.err # "none" THEN [err |-> "encoding", jwt |-> NoJWT]
                 ELSE IF header.err # "none" THEN [err |-> "json", jwt |-> NoJWT]
                 ELSE IF payload.err # "none" THEN [err |-> "json", jwt |-> NoJWT]
                 ELSE IF strictMode /\ KAlg \notin DOMAIN header.m
                      THEN [err |-> "header", jwt |-> NoJWT]
                 ELSE [err |-> "none",
                       jwt |-> [Header |-> header.m, Payload |-> payload.m,
                                Signature |-> segments[3]]]

\* a parse that finishes with segment 0 (decode, unmarshal) before it turns
\* to segment 1
ParseJWTHeaderFirst(token, strictMode) ==
    LET segments == Split(token, Dot)
    IN  IF Len(segments) # 3
        THEN [err |-> "format", jwt |-> NoJWT]
        ELSE LET headerBytes == Base64RawURLDecode(segments[1])
                 payloadBytes == Base64RawURLDecode(segments[2])
                 header == JSONUnmarshalMap(headerBytes.bytes)
                 payload == JSONUnmarshalMap(payloadBytes.bytes)
             IN  IF headerBytes.err # "none" THEN [err |-> "encoding", jwt |-> NoJWT]
                 ELSE IF header.err # "none" THEN [err |-> "json", jwt |-> NoJWT]
                 ELSE IF payloadBytes.err # "none" THEN [err |-> "encoding", jwt |-> NoJWT]
                 ELSE IF payload.err # "none" THEN [err |-> "json", jwt |-> NoJWT]
                 ELSE IF strictMode /\ KAlg \notin DOMAIN header.m
                      THEN [err |-> "header", jwt |-> NoJWT]
                 ELSE [err |-> "none",
                       jwt |-> [Header |-> header.m, Payload |-> payload.m,
                                Signature |-> segments[3]]]

\* a parse that also asks for a non-empty third segment
ParseJWTRequireSignature(token, strictMode) ==
    LET segments == Split(token, Dot)
    IN  IF Len(segments) # 3 \/ segments[Len(segments)] = <<>>
        THEN [err |-> "format", jwt |-> NoJWT]
        ELSE LET headerBytes == Base64RawURLDecode(segments[1])
                 payloadBytes == Base64RawURLDecode(segments[2])
                 header == JSONUnmarshalMap(headerBytes.bytes)
                 payload == JSONUnmarshalMap(payloadBytes.bytes)
             IN  IF headerBytes.err # "none" THEN [err |-> "encoding", jwt |-> NoJWT]
                 ELSE IF payloadBytes.err # "none" THEN [err |-> "encoding", jwt |-> NoJWT]
                 ELSE IF header.err # "none" THEN [err |-> "json", jwt |-> NoJWT]
                 ELSE IF payload.err # "none" THEN [err |-> "json", jwt |-> NoJWT]
                 ELSE IF strictMode /\ KAlg \notin DOMAIN header.m
                      THEN [err |-> "header", jwt |-> NoJWT]
                 ELSE [err |-> "none",
                       jwt |-> [Header |-> header.m, Payload |-> payload.m,
                                Signature |-> segments[3]]]

\* ParseJWT: (*JWT, error); err is "format", "encoding", "json" or "header"
ParseJWT(token, strictMode) ==
    LET segments == Split(token, Dot)
    IN  IF Len(segments) # 3
        THEN [err |-> "format", jwt |-> NoJWT]
        ELSE LET headerBytes == Base64RawURLDecode(segments[1])
                 payloadBytes == Base64RawURLDecode(segments[2])
                 header == JSONUnmarshalMap(headerBytes.bytes)
                 payload == JSONUnmarshalMap(payloadBytes.bytes)
             IN  IF headerBytes.err # "none" THEN [err |-> "encoding", jwt |-> NoJWT]
                 ELSE IF payloadBytes.err # "none" THEN [err |-> "encoding", jwt |-> NoJWT]
                 ELSE IF header.err # "none" THEN [err |-> "json", jwt |-> NoJWT]
                 ELSE IF payload.err # "none" THEN [err |-> "json", jwt |-> NoJWT]
                 ELSE IF strictMode /\ KAlg \notin DOMAIN header.m
                      THEN [err |-> "header", jwt |-> NoJWT]
                 ELSE [err |-> "none",
                       jwt |-> [Header |-> header.m, Payload |-> payload.m,
                                Signature |-> segments[3]]]

---------------------------------------------------------------------------
(* claims.go                                                               *)

\* a traversal that reports a value it cannot descend into as not found
RECURSIVE NavigateNoTypeError(_, _, _, _)
NavigateNoTypeError(current, parts, i, path) ==
    IF i > Len(parts)
    THEN [err |-> "notfound", detail |-> path, value |-> Nil]
    ELSE IF parts[i] \notin DOMAIN current
    THEN [err |-> "notfound", detail |-> path, value |-> Nil]
    ELSE IF i = Len(parts)
    THEN [err |-> "none", detail |-> <<>>, value |-> current[parts[i]]]
    ELSE IF current[parts[i]].t # "object"
    THEN [err |-> "notfound", detail |-> path, value |-> Nil]
    ELSE NavigateNoTypeError(current[parts[i]].m, parts, i + 1, path)

\* a traversal that takes a key whose value is nil for a missing key
RECURSIVE NavigateNilIsMissing(_, _, _, _)
NavigateNilIsMissing(current, parts, i, path) ==
    IF i > Len(parts)
    THEN [err |-> "notfound", detail |-> path, value |-> Nil]
    ELSE IF parts[i] \notin DOMAIN current \/ current[parts[i]] = Nil
    THEN [err |-> "notfound", detail |-> path, value |-> Nil]
    ELSE IF i = Len(parts)
    THEN [err |-> "none", detail |-> <<>>, value |-> current[parts[i]]]
    ELSE IF current[parts[i]].t # "object"
    THEN [err |-> "notobject", detail |-> parts[i], value |-> Nil]
    ELSE NavigateNilIsMissing(current[parts[i]].m, parts, i + 1, path)

\* the loop of ExtractClaim from part i on, current being the map reached
RECURSIVE Navigate(_, _, _, _)
Navigate(current, parts, i, path) ==
    IF i > Len(parts)
    THEN [err |-> "notfound", detail |-> path, value |-> Nil]
    ELSE IF parts[i] \notin DOMAIN current
    THEN [err |-> "notfound", detail |-> path, value |-> Nil]
    ELSE IF i = Len(parts)
    THEN [err |-> "none", detail |-> <<>>, value |-> current[parts[i]]]
    ELSE IF current[parts[i]].t # "object"
    THEN [err |-> "notobject", detail |-> parts[i], value |-> Nil]
    ELSE Navigate(current[parts[i]].m, parts, i + 1, path)

\* the depth check rejects a path of exactly maxDepth parts too
ExtractClaimOffByOne(data, path, maxDepth) ==
    LET parts == Split(path, Dot)
    IN  IF Len(parts) >= maxDepth
        THEN [err |-> "depth", detail |-> <<>>, value |-> Nil]
        ELSE Navigate(data, parts, 1, path)

\* ExtractClaim: (value, error)
ExtractClaim(data, path, maxDepth) ==
    LET parts == Split(path, Dot)
    IN  IF Len(parts) > maxDepth
        THEN [err |-> "depth", detail |-> <<>>, value |-> Nil]
        ELSE Navigate(data, parts, 1, path)

\* strconv.Itoa / strconv.FormatFloat(v, 'f', -1, 64) of an integral value
RECURSIVE Digits(_)
Digits(n) ==
    IF n < 10 THEN <<48 + n>> ELSE Append(Digits(n \div 10), 48 + (n % 10))

FormatInt(n) == IF n < 0 THEN <<45>> \o Digits(0 - n) ELSE Digits(n)

RECURSIVE Join(_, _)
Join(parts, sep) ==
    IF parts = <<>> THEN <<>>
    ELSE IF Len(parts) = 1 THEN parts[1]
    ELSE parts[1] \o sep \o Join(Tail(parts), sep)

HexDigit(n) == IF n < 10 THEN 48 + n ELSE 87 + n

\* json.Marshal of one character of a string: quote and backslash are
\* escaped, LF, CR and TAB are written \n, \r, \t, any other control
\* character and < > & U+2028 U+2029 as \uXXXX
JEncodeRune(c) ==
    IF c \in {34, 92} THEN <<92, c>>
    ELSE IF c = 10 THEN <<92, 110>>
    ELSE IF c = 13 THEN <<92, 114>>
    ELSE IF c = 9 THEN <<92, 116>>
    ELSE IF c < 32 \/ c \in {60, 62, 38}
         THEN <<92, 117, 48, 48, HexDigit(c \div 16), HexDigit(c % 16)>>
    ELSE IF c \in {8232, 8233}
         THEN <<92, 117, 50, 48, 50, HexDigit(c - 8224)>>
    ELSE <<c>>

RECURSIVE JEncodeString(_)
JEncodeString(str) ==
    IF str = <<>> THEN <<>>
    ELSE JEncodeRune(Head(str)) \o JEncodeString(Tail(str))

\* the keys of a map in the order json.Marshal writes them (sorted)
RECURSIVE StringLess(_, _)
StringLess(a, b) ==
    IF b = <<>> THEN FALSE
    ELSE IF a = <<>> THEN TRUE
    ELSE IF Head(a) # Head(b) THEN Head(a) < Head(b)
    ELSE StringLess(Tail(a), Tail(b))

RECURSIVE SortedKeys(_)
SortedKeys(keys) ==
    IF keys = {} THEN <<>>
    ELSE LET k == CHOOSE x \in keys : \A y \in keys \ {x} : StringLess(x, y)
         IN  <<k>> \o SortedKeys(keys \ {k})

\* json.Marshal of a dynamic value
RECURSIVE JSONMarshal(_)
JSONMarshal(v) ==
    IF v.t = "nil" THEN S(<<"n","u","l","l">>)
    ELSE IF v.t = "bool"
         THEN IF v.b THEN S(<<"t","r","u","e">>) ELSE S(<<"f","a","l","s","e">>)
    ELSE IF v.t = "number" THEN FormatInt(v.n)
    ELSE IF v.t = "string" THEN <<34>> \o JEncodeString(v.s) \o <<34>>
    ELSE IF v.t = "array"
         THEN <<91>> \o Join([i \in 1..Len(v.l) |-> JSONMarshal(v.l[i])], <<44>>) \o <<93>>
    ELSE LET keys == SortedKeys(DOMAIN v.m)
         IN  <<123>>
             \o Join([i \in 1..Len(keys) |->
                        <<34>> \o JEncodeString(keys[i]) \o <<34, 58>>
                        \o JSONMarshal(v.m[keys[i]])], <<44>>)
             \o <<125>>

FormatJSON == S(<<"j","s","o","n">>)
FormatComma == S(<<"c","o","m","m","a">>)

\* a variant that joins the JSON literals of a list's elements in the
\* joined-text mode instead of the elements' own serializations
ConvertClaimElementsAsJSON(value, arrayFormat) ==
    IF value.t = "nil" THEN [err |-> "none", value |-> <<>>]
    ELSE IF value.t = "string" THEN [err |-> "none", value |-> value.s]
    ELSE IF value.t = "bool"
         THEN [err |-> "none",
               value |-> IF value.b THEN S(<<"t","r","u","e">>)
                                    ELSE S(<<"f","a","l","s","e">>)]
    ELSE IF value.t = "number" THEN [err |-> "none", value |-> FormatInt(value.n)]
    ELSE IF value.t = "array" /\ arrayFormat # FormatJSON
         THEN [err |-> "none",
               value |-> Join([i \in 1..Len(value.l) |-> JSONMarshal(value.l[i])],
                              <<44, 32>>)]
    ELSE [err |-> "none", value |-> JSONMarshal(value)]

\* ConvertClaimToString: (string, error); no value json.Unmarshal produces
\* makes json.Marshal fail, so the error is always nil here
RECURSIVE ConvertClaimToString(_, _)
ConvertClaimToString(value, arrayFormat) ==
    IF value.t = "nil" THEN [err |-> "none", value |-> <<>>]
    ELSE IF value.t = "string" THEN [err |-> "none", value |-> value.s]
    ELSE IF value.t = "bool"
         THEN [err |-> "none",
               value |-> IF value.b THEN S(<<"t","r","u","e">>)
                                    ELSE S(<<"f","a","l","s","e">>)]
    ELSE IF value.t = "number" THEN [err |-> "none", value |-> FormatInt(value.n)]
    ELSE IF value.t = "array"
         THEN IF arrayFormat = FormatJSON
              THEN [err |-> "none", value |-> JSONMarshal(value)]
              ELSE LET parts == [i \in 1..Len(value.l) |->
                                    ConvertClaimToString(value.l[i], arrayFormat)]
                   IN  IF \E i \in 1..Len(parts) : parts[i].err # "none"
                       THEN [err |-> "marshal", value |-> <<>>]
                       ELSE [err |-> "none",
                             value |-> Join([i \in 1..Len(parts) |-> parts[i].value],
                                            <<44, 32>>)]
    ELSE [err |-> "none", value |-> JSONMarshal(value)]

---------------------------------------------------------------------------
(* Config.Validate and New                                                 *)

SectionPayload == S(<<"p","a","y","l","o","a","d">>)
SectionHeader == S(<<"h","e","a","d","e","r">>)
LogLevels == { S(<<"d","e","b","u","g">>), S(<<"i","n","f","o">>),
               S(<<"w","a","r","n">>), S(<<"e","r","r","o","r">>) }

\* the loop of Validate over the claim mappings from mapping i on, seen
\* being the lowercased header names of the mappings before it
RECURSIVE ValidateClaims(_, _, _)
ValidateClaims(claims, i, seen) ==
    IF i > Len(claims) THEN "none"
    ELSE IF claims[i].ClaimPath = <<>> THEN "claimPath"
    ELSE IF claims[i].HeaderName = <<>> THEN "headerName"
    ELSE IF claims[i].ArrayFormat \notin {<<>>, FormatComma, FormatJSON} THEN "arrayFormat"
    ELSE IF ToLower(claims[i].HeaderName) \in seen THEN "duplicate"
    ELSE ValidateClaims(claims, i + 1, seen \cup {ToLower(claims[i].HeaderName)})

\* a validation without the check for duplicate header names
ValidateNoDuplicateCheck(c) ==
    IF Len(c.Claims) = 0 THEN "claims"
    ELSE IF \E i \in 1..Len(c.Claims) : c.Claims[i].ClaimPath = <<>> THEN "claimPath"
    ELSE IF \E i \in 1..Len(c.Claims) : c.Claims[i].HeaderName = <<>> THEN "headerName"
    ELSE IF \E i \in 1..Len(c.Claims) :
                c.Claims[i].ArrayFormat \notin {<<>>, FormatComma, FormatJSON} THEN "arrayFormat"
    ELSE IF Len(c.Sections) = 0 THEN "sections"
    ELSE IF \E i \in 1..Len(c.Sections) :
                c.Sections[i] \notin {SectionHeader, SectionPayload} THEN "section"
    ELSE IF c.MaxClaimDepth <= 0 THEN "maxClaimDepth"
    ELSE IF c.MaxHeaderSize <= 0 THEN "maxHeaderSize"
    ELSE IF c.LogLevel # <<>> /\ c.LogLevel \notin LogLevels THEN "logLevel"
    ELSE "none"

\* Config.Validate: "none" for nil, else the rule violated
Validate(c) ==
    IF Len(c.Claims) = 0 THEN "claims"
    ELSE IF ValidateClaims(c.Claims, 1, {}) # "none"
         THEN ValidateClaims(c.Claims, 1, {})
    ELSE IF Len(c.Sections) = 0 THEN "sections"
    ELSE IF \E i \in 1..Len(c.Sections) :
                c.Sections[i] \notin {SectionHeader, SectionPayload} THEN "section"
    ELSE IF c.MaxClaimDepth <= 0 THEN "maxClaimDepth"
    ELSE IF c.MaxHeaderSize <= 0 THEN "maxHeaderSize"
    ELSE IF c.LogLevel # <<>> /\ c.LogLevel \notin LogLevels THEN "logLevel"
    ELSE "none"

---------------------------------------------------------------------------
(* JWTClaimsHeaders.ServeHTTP, one invocation: its position (pc), the      *)
(* request's headers, the token, the decoded JWT, the index of the mapping *)
(* the loop is at, what was written to the response, how often and with    *)
(* which headers the next handler was called, and the outcome of each      *)
(* mapping processed so far.                                               *)

NoResponse == [status |-> 0, contentType |-> <<>>, error |-> "", message |-> ""]

NewInvocation(headers) ==
    [pc |-> "start", req |-> headers, arrival |-> headers, token |-> <<>>,
     jwt |-> NoJWT, idx |-> 0, resp |-> NoResponse, nextCalls |-> 0,
     forwarded |-> NoHeaders, trace |-> <<>>]

\* j.next.ServeHTTP(rw, req); return
CallNext(v) ==
    [v EXCEPT !.pc = "done", !.nextCalls = @ + 1, !.forwarded = v.req]

\* a rejection that is not followed by a return: the 401 is written and the
\* handler goes on to call the next handler
returnErrorAndForward(v, errorType, message) ==
    [CallNext(v) EXCEPT
        !.resp = [status |-> 401,
                  contentType |-> S(<<"a","p","p","l","i","c","a","t","i","o","n","/","j","s","o","n">>),
                  error |-> errorType, message |-> message]]

\* j.returnError(rw, errorType, message); return
returnError(v, errorType, message) ==
    [v EXCEPT !.pc = "done",
              !.resp = [status |-> 401,
                        contentType |-> S(<<"a","p","p","l","i","c","a","t","i","o","n","/","j","s","o","n">>),
                        error |-> errorType, message |-> message]]

\* the error branch that forwards whatever continueOnError says
OnErrorAlwaysForward(c, v, message) == CallNext(v)

\* the error branch that, when it continues, runs on into the end of the
\* handler: the source header is removed before the next handler is called
OnErrorFallThrough(c, v, message) ==
    IF c.ContinueOnError
    THEN CallNext(IF c.RemoveSourceHeader
                  THEN [v EXCEPT !.req = HeaderDel(v.req, c.SourceHeader)]
                  ELSE v)
    ELSE returnError(v, "unauthorized", message)

\* the branch taken when the header is missing or the token does not parse
OnError(c, v, message) ==
    IF c.ContinueOnError
    THEN CallNext(v)
    ELSE returnError(v, "unauthorized", message)

\* steps 1 and 2: read the source header and strip the prefix
ReadSourceHeader(c, v) ==
    LET headerValue == HeaderGet(v.req, c.SourceHeader)
    IN  IF headerValue = <<>>
        THEN OnError(c, v, "missing JWT token")
        ELSE [v EXCEPT !.pc = "extracted",
                       !.token = ExtractToken(headerValue, c.TokenPrefix)]

\* step 3: parse the token (ServeHTTP passes the token alone: the parse
\* without the strict-mode check of the header)
ParseToken(c, v) ==
    LET r == ParseJWT(v.token, FALSE)
    IN  IF r.err # "none"
        THEN OnError(c, v, "invalid JWT token")
        ELSE [v EXCEPT !.pc = "decoded", !.jwt = r.jwt, !.idx = 1]

\* a lookup that consults the first configured section alone
FindClaimFirstSectionOnly(jwt, sections, i, path, maxDepth) ==
    IF i > Len(sections)
    THEN [found |-> FALSE, value |-> Nil, section |-> <<>>]
    ELSE LET data == IF sections[i] = SectionPayload THEN jwt.Payload
                     ELSE IF sections[i] = SectionHeader THEN jwt.Header
                     ELSE <<>>
             r == ExtractClaim(data, path, maxDepth)
         IN  IF r.err = "none"
             THEN [found |-> TRUE, value |-> r.value, section |-> sections[i]]
             ELSE [found |-> FALSE, value |-> Nil, section |-> <<>>]

\* a section loop without the break: the last section that has the claim
\* wins
RECURSIVE FindClaimLastSection(_, _, _, _, _)
FindClaimLastSection(jwt, sections, i, path, maxDepth) ==
    IF i > Len(sections)
    THEN [found |-> FALSE, value |-> Nil, section |-> <<>>]
    ELSE LET data == IF sections[i] = SectionPayload THEN jwt.Payload
                     ELSE IF sections[i] = SectionHeader THEN jwt.Header
                     ELSE <<>>
             r == ExtractClaim(data, path, maxDepth)
             rest == FindClaimLastSection(jwt, sections, i + 1, path, maxDepth)
         IN  IF rest.found THEN rest
             ELSE IF r.err = "none"
             THEN [found |-> TRUE, value |-> r.value, section |-> sections[i]]
             ELSE rest

\* a section loop that takes a null value for a miss and goes on to the
\* next section
RECURSIVE FindClaimNullFallsThrough(_, _, _, _, _)
FindClaimNullFallsThrough(jwt, sections, i, path, maxDepth) ==
    IF i > Len(sections)
    THEN [found |-> FALSE, value |-> Nil, section |-> <<>>]
    ELSE LET data == IF sections[i] = SectionPayload THEN jwt.Payload
                     ELSE IF sections[i] = SectionHeader THEN jwt.Header
                     ELSE <<>>
             r == ExtractClaim(data, path, maxDepth)
         IN  IF r.err = "none" /\ r.value # Nil
             THEN [found |-> TRUE, value |-> r.value, section |-> sections[i]]
             ELSE FindClaimNullFallsThrough(jwt, sections, i + 1, path, maxDepth)

\* the section loop of step 4 from section i on
RECURSIVE FindClaim(_, _, _, _, _)
FindClaim(jwt, sections, i, path, maxDepth) ==
    IF i > Len(sections)
    THEN [found |-> FALSE, value |-> Nil, section |-> <<>>]
    ELSE LET data == IF sections[i] = SectionPayload THEN jwt.Payload
                     ELSE IF sections[i] = SectionHeader THEN jwt.Header
                     ELSE <<>>
             r == ExtractClaim(data, path, maxDepth)
         IN  IF r.err = "none"
             THEN [found |-> TRUE, value |-> r.value, section |-> sections[i]]
             ELSE FindClaim(jwt, sections, i + 1, path, maxDepth)

\* a loop that returns at the first mapping that fails
ProcessMappingAbortOnFailure(c, v) ==
    LET cm == c.Claims[v.idx]
        f == FindClaim(v.jwt, c.Sections, 1, cm.ClaimPath, c.MaxClaimDepth)
        str == ConvertClaimToString(f.value, cm.ArrayFormat)
        inj == InjectHeader(v.req, cm.HeaderName, str.value, cm.Override, c.MaxHeaderSize)
    IN  IF ~f.found \/ str.err # "none" \/ inj.err # "none"
        THEN returnError(v, "unauthorized", "invalid JWT token")
        ELSE [v EXCEPT !.req = inj.header, !.idx = @ + 1,
                       !.trace = Append(@, [outcome |-> "injected", name |-> cm.HeaderName,
                                            section |-> f.section, value |-> str.value])]

\* a loop that stops at the first mapping that fails (break for continue)
\* and goes on to the end of the handler
ProcessMappingBreakOnFailure(c, v) ==
    LET cm == c.Claims[v.idx]
        f == FindClaim(v.jwt, c.Sections, 1, cm.ClaimPath, c.MaxClaimDepth)
        str == ConvertClaimToString(f.value, cm.ArrayFormat)
        inj == InjectHeader(v.req, cm.HeaderName, str.value, cm.Override, c.MaxHeaderSize)
        stop(why) == [v EXCEPT !.idx = Len(c.Claims) + 1,
                               !.trace = Append(@, [outcome |-> why, name |-> cm.HeaderName,
                                                    section |-> f.section, value |-> <<>>])]
    IN  IF ~f.found THEN stop("notfound")
        ELSE IF str.err # "none" THEN stop("convert")
        ELSE IF inj.err # "none" THEN stop("inject")
        ELSE [v EXCEPT !.req = inj.header, !.idx = @ + 1,
                       !.trace = Append(@, [outcome |-> "injected", name |-> cm.HeaderName,
                                            section |-> f.section, value |-> str.value])]

\* step 4, one iteration of the loop over the claim mappings
ProcessMapping(c, v) ==
    LET cm == c.Claims[v.idx]
        f == FindClaim(v.jwt, c.Sections, 1, cm.ClaimPath, c.MaxClaimDepth)
        str == ConvertClaimToString(f.value, cm.ArrayFormat)
        inj == InjectHeader(v.req, cm.HeaderName, str.value, cm.Override, c.MaxHeaderSize)
        skip(why) == [v EXCEPT !.idx = @ + 1,
                               !.trace = Append(@, [outcome |-> why, name |-> cm.HeaderName,
                                                    section |-> f.section, value |-> <<>>])]
    IN  IF ~f.found THEN skip("notfound")
        ELSE IF str.err # "none" THEN skip("convert")
        ELSE IF inj.err # "none" THEN skip("inject")
        ELSE [v EXCEPT !.req = inj.header, !.idx = @ + 1,
                       !.trace = Append(@, [outcome |-> "injected", name |-> cm.HeaderName,
                                            section |-> f.section, value |-> str.value])]

\* an end of the handler that removes Authorization whatever the configured
\* source header is
FinishRemoveAuthorization(c, v) ==
    CallNext(IF c.RemoveSourceHeader
             THEN [v EXCEPT !.req = HeaderDel(v.req, S(<<"A","u","t","h","o","r","i","z","a","t","i","o","n">>))]
             ELSE v)

\* an end of the handler that forwards the request with its source header
FinishKeepSource(c, v) == CallNext(v)

\* steps 5 and 6: remove the source header if configured, call the next
\* handler
Finish(c, v) ==
    CallNext(IF c.RemoveSourceHeader
             THEN [v EXCEPT !.req = HeaderDel(v.req, c.SourceHeader)]
             ELSE v)

\* the next step of ServeHTTP for an invocation that has not returned
ServeStep(c, v) ==
    IF v.pc = "start" THEN ReadSourceHeader(c, v)
    ELSE IF v.pc = "extracted" THEN ParseToken(c, v)
    ELSE IF v.idx <= Len(c.Claims) THEN ProcessMapping(c, v)
    ELSE Finish(c, v)

\* ServeHTTP from an invocation's position to its return
RECURSIVE ServeHTTP(_, _)
ServeHTTP(c, v) == IF v.pc = "done" THEN v ELSE ServeHTTP(c, ServeStep(c, v))

\* a handler that keeps the extracted token in a field of the handler: what
\* one goroutine stores there is what every goroutine parses next
HandleSharedToken(c, all, r) ==
    LET n == ServeStep(c, all[r])
    IN  IF all[r].pc = "start" /\ n.pc = "extracted"
        THEN [k \in DOMAIN all |->
                IF k = r THEN n ELSE [all[k] EXCEPT !.token = n.token]]
        ELSE [all EXCEPT ![r] = n]

\* one step of goroutine r among the invocations in flight: ServeHTTP works
\* on its own rw, req and locals, and reads j.config
Handle(c, all, r) == [all EXCEPT ![r] = ServeStep(c, all[r])]

---------------------------------------------------------------------------
(* Names and values the inputs are drawn from.                             *)


HAuthorization == S(<<"A","u","t","h","o","r","i","z","a","t","i","o","n">>)
HUserId == S(<<"X","-","U","s","e","r","-","I","d">>)
HUserIdLower == S(<<"x","-","u","s","e","r","-","i","d">>)
HRole == S(<<"X","-","R","o","l","e">>)
HHost == S(<<"H","o","s","t">>)
HHostUpper == S(<<"H","O","S","T">>)
HRealIp == S(<<"X","-","R","e","a","l","-","I","p">>)
HContentTypeLower == S(<<"c","o","n","t","e","n","t","-","t","y","p","e">>)
HContentType == S(<<"C","o","n","t","e","n","t","-","T","y","p","e">>)

\* TAB, LF, CR, space, 'a', DEL, NBSP, and the byte 0xFF
SanitizeAlphabet == {9, 10, 13, 32, 97, 127, 160, -255}
SanitizeValues == BoundedSeq(SanitizeAlphabet, MaxValueLen)

\* CR, space, 'a'
InjectAlphabet == {13, 32, 97}
InjectValues == BoundedSeq(InjectAlphabet, MaxValueLen)
InjectNames == {HUserId, HUserIdLower, HHost, HHostUpper, HContentTypeLower}

\* a header collection from the values (a list, empty for none) of three keys
Headers3(user, host, ctype) ==
    LET all == (HUserId :> user) @@ (HHost :> host) @@ (HContentType :> ctype)
    IN  [k \in {x \in DOMAIN all : all[x] # <<>>} |-> all[k]]

\* header collections of an inbound request: a key is absent, present with
\* the empty value, or present with one or two values
InjectRequests ==
    { Headers3(u, h, c) :
        u \in {<<>>, <<S(<<>>)>>, <<S(<<"b">>)>>, <<S(<<"b">>), S(<<"c">>)>>},
        h \in {<<>>, <<S(<<"h">>)>>},
        c \in {<<>>, <<S(<<"j">>)>>} }

---------------------------------------------------------------------------
(* SpecSanitize: SanitizeHeaderValue applied to a drawn value, and then to *)
(* its own result.                                                         *)

InitSanitize ==
    /\ pc = "call"
    /\ arg \in [value : SanitizeValues, maxSize : 0..MaxSizeBound]
    /\ ret = NoCall
    /\ req = NoHeaders
    /\ arrival = NoHeaders
    /\ config = NoConfig
    /\ inv = NoInvocation

Sanitize ==
    /\ pc = "call"
    /\ ret' = SanitizeHeaderValue(arg.value, arg.maxSize)
    /\ pc' = "returned"
    /\ UNCHANGED <<arg, req, arrival, config, inv>>

SanitizeAgain ==
    /\ pc = "returned"
    /\ ret.err = "none"
    /\ \E m \in 0..MaxSizeBound :
          ret' = [err |-> ret.err, value |-> ret.value, maxSize2 |-> m,
                  again |-> SanitizeHeaderValue(ret.value, m)]
    /\ pc' = "resanitized"
    /\ UNCHANGED <<arg, req, arrival, config, inv>>

NextSanitize == Sanitize \/ SanitizeAgain

SpecSanitize == InitSanitize /\ [][NextSanitize]_vars

---------------------------------------------------------------------------
(* SpecInject: InjectHeader applied to a drawn request.                    *)

InitInject ==
    /\ pc = "call"
    /\ arg \in [name : InjectNames, value : InjectValues,
                override : BOOLEAN, maxSize : 0..MaxSizeBound]
    /\ ret = NoCall
    /\ req \in InjectRequests
    /\ arrival = req
    /\ config = NoConfig
    /\ inv = NoInvocation

InjectHeaderCall ==
    /\ pc = "call"
    /\ LET r == InjectHeader(req, arg.name, arg.value, arg.override, arg.maxSize)
       IN  /\ ret' = [err |-> r.err]
           /\ req' = r.header
    /\ pc' = "returned"
    /\ UNCHANGED <<arg, arrival, config, inv>>

NextInject == InjectHeaderCall

SpecInject == InitInject /\ [][NextInject]_vars

---------------------------------------------------------------------------
(* Claims about SanitizeHeaderValue (SpecSanitize).                        *)

NoControl(s) == \A i \in 1..Len(s) : s[i] >= 32 /\ s[i] # 127

\* C7: for every string s and every maxSize >= len(s), SanitizeHeaderValue
\* succeeds and its result holds no code point below 0x20 and no 0x7F (so no
\* carriage return and no line feed).
C7_NoControlLeakage ==
    (pc = "returned" /\ ByteLen(arg.value) <= arg.maxSize)
        => /\ ret.err = "none"
           /\ NoControl(ret.value)
           /\ \A i \in 1..Len(ret.value) : ret.value[i] \notin {10, 13}

\* a value with CR, LF and a printable character was sanitized to a
\* non-empty result
C7_Witness ==
    /\ pc = "returned"
    /\ ByteLen(arg.value) <= arg.maxSize
    /\ \E i, j, k \in 1..Len(arg.value) :
          arg.value[i] = 13 /\ arg.value[j] = 10 /\ arg.value[k] = 97
    /\ ret.err = "none"
    /\ ret.value = <<97>>

WellFormed(s) == \A i \in 1..Len(s) : s[i] >= 0

---------------------------------------------------------------------------
(* Claims about InjectHeader (SpecInject).                                 *)

\* C2: InjectHeader with a name whose lowercased form is protected returns
\* no error and leaves the whole header collection unchanged, for every raw
\* value (also one longer than maxSize) and both collision policies.
C2_ProtectedNoOp ==
    (pc = "returned" /\ ToLower(arg.name) \in protectedHeaders)
        => ret.err = "none" /\ req = arrival

\* InjectHeader was called for HOST with override and a value longer than
\* maxSize on a request that carries a Host header
C2_Witness ==
    /\ pc = "returned"
    /\ arg.name = HHostUpper
    /\ arg.override
    /\ ByteLen(arg.value) > arg.maxSize
    /\ HHost \in DOMAIN arrival
    /\ ret.err = "none"

\* C10: for a non-protected name and a value within the size limit, an
\* existing non-empty value is kept under preserve-existing (no error) and
\* overwritten with the sanitized value under replace-existing; an absent or
\* empty header is set to the sanitized value under either policy.
C10_CollisionPolicy ==
    (pc = "returned" /\ ~IsProtectedHeader(arg.name)
                     /\ ByteLen(arg.value) <= arg.maxSize)
        => /\ ret.err = "none"
           /\ IF HeaderGet(arrival, arg.name) # <<>> /\ ~arg.override
              THEN req = arrival
              ELSE /\ CanonicalMIMEHeaderKey(arg.name) \in DOMAIN req
                   /\ req[CanonicalMIMEHeaderKey(arg.name)]
                        = <<TrimSpace(StripControl(arg.value))>>
                   /\ \A k \in DOMAIN arrival \cup DOMAIN req :
                        k # CanonicalMIMEHeaderKey(arg.name)
                          => k \in DOMAIN arrival /\ k \in DOMAIN req
                             /\ req[k] = arrival[k]

\* an existing value was preserved
C10_Witness ==
    /\ pc = "returned"
    /\ arg.name = HUserIdLower
    /\ ~arg.override
    /\ arg.value = <<97>>
    /\ arg.maxSize >= 1
    /\ HeaderGet(arrival, HUserId) = S(<<"b">>)
    /\ HeaderGet(req, HUserId) = S(<<"b">>)

\* C17: the size limit is applied to the byte length of the raw value,
\* before it is sanitized: for a name that is not protected, a value of at
\* most maxSize bytes (of exactly maxSize bytes too) is accepted, and a
\* longer one fails with the size error, also when the sanitized value would
\* fit, and leaves the request's headers as they were.
C17_SizeBeforeSanitize ==
    (pc = "returned" /\ ToLower(arg.name) \notin protectedHeaders) =>
        IF ByteLen(arg.value) > arg.maxSize
        THEN ret.err = "size" /\ req = arrival
        ELSE ret.err = "none"

\* a value of maxSize+1 bytes that sanitizes to one byte was refused, with
\* override set and the header present
C17_Witness ==
    /\ pc = "returned"
    /\ arg.name = HUserId
    /\ arg.override
    /\ arg.value = <<13, 97, 13>>
    /\ arg.maxSize = 2
    /\ HeaderGet(arrival, HUserId) = S(<<"b">>)
    /\ ret.err = "size"
    /\ req = arrival

\* C24: InjectHeader applies its checks in the order protected name, size,
\* collision, and the first one that applies decides.  A protected name is
\* a no-op without error whatever the value's size; for any other name a
\* raw value longer than maxSize is the size error with the headers
\* unchanged, also when the header exists with a non-empty value and the
\* policy is preserve-existing; only a value within the limit reaches the
\* collision check.
C24_CheckOrder ==
    pc = "returned" =>
        LET protected == ToLower(arg.name) \in protectedHeaders
            oversize == ByteLen(arg.value) > arg.maxSize
            collision == HeaderGet(arrival, arg.name) # <<>> /\ ~arg.override
        IN  IF protected THEN ret.err = "none" /\ req = arrival
            ELSE IF oversize THEN ret.err = "size" /\ req = arrival
            ELSE IF collision THEN ret.err = "none" /\ req = arrival
            ELSE /\ ret.err = "none"
                 /\ HeaderGet(req, arg.name) = TrimSpace(StripControl(arg.value))

\* a value over the limit was refused although the header exists and the
\* policy is preserve-existing
C24_Witness ==
    /\ pc = "returned"
    /\ arg.name = HUserIdLower
    /\ ~arg.override
    /\ arg.value = <<97, 97, 97>>
    /\ arg.maxSize = 2
    /\ HeaderGet(arrival, HUserId) = S(<<"b">>)
    /\ ret.err = "size"
    /\ req = arrival

---------------------------------------------------------------------------
(* SpecExtract: ExtractClaim applied to a drawn document, path and depth.  *)

KA == S(<<"a">>)
KB == S(<<"b">>)
KEmpty == S(<<>>)

\* {"a":{"b":{"a":"x"}},"b":"x"}
DocNested ==
    (KA :> VObject(KB :> VObject(KA :> VString(S(<<"x">>)))))
    @@ (KB :> VString(S(<<"x">>)))
\* {"a":{"a":{"a":{"a":true}}},"":{"":null}}
DocDeep ==
    (KA :> VObject(KA :> VObject(KA :> VObject(KA :> VBool(TRUE)))))
    @@ (KEmpty :> VObject(KEmpty :> Nil))
\* {"a":["x"],"b":null}
DocFlat ==
    (KA :> VArray(<<VString(S(<<"x">>))>>)) @@ (KB :> Nil)
\* {"a":1,"b":true}
DocScalars == (KA :> VNumber(1)) @@ (KB :> VBool(TRUE))
\* {}
DocEmpty == <<>>

ExtractDocuments == {DocNested, DocDeep, DocFlat, DocScalars, DocEmpty}
ExtractPaths == BoundedSeq({Code("a"), Code("b"), Dot}, MaxPathLen)

InitExtract ==
    /\ pc = "call"
    /\ \E d \in ExtractDocuments, p \in ExtractPaths, n \in 0..MaxDepthBound :
          arg = [data |-> d, path |-> p, maxDepth |-> n]
    /\ ret = NoCall
    /\ req = NoHeaders
    /\ arrival = NoHeaders
    /\ config = NoConfig
    /\ inv = NoInvocation

ExtractClaimCall ==
    /\ pc = "call"
    /\ ret' = ExtractClaim(arg.data, arg.path, arg.maxDepth)
    /\ pc' = "returned"
    /\ UNCHANGED <<arg, req, arrival, config, inv>>

NextExtract == ExtractClaimCall

SpecExtract == InitExtract /\ [][NextExtract]_vars

---------------------------------------------------------------------------
(* Claims about ExtractClaim (SpecExtract).                                *)

\* the number of dot-separated segments of a path: its dots, plus one
NumSegments(path) == 1 + Cardinality({i \in 1..Len(path) : path[i] = Dot})

\* the k-th segment of a path, read off the positions of its dots
Segment(path, k) ==
    LET dots == {i \in 1..Len(path) : path[i] = Dot}
        before(i) == Cardinality({j \in dots : j < i})
        idx == {i \in 1..Len(path) : path[i] # Dot /\ before(i) = k - 1}
    IN  [n \in 1..Cardinality(idx) |->
            path[CHOOSE i \in idx : Cardinality({j \in idx : j < i}) = n - 1]]

\* whether the document holds the path, and the value it holds there
RECURSIVE Holds(_, _, _)
Holds(m, path, k) ==
    /\ Segment(path, k) \in DOMAIN m
    /\ \/ k = NumSegments(path)
       \/ /\ m[Segment(path, k)].t = "object"
          /\ Holds(m[Segment(path, k)].m, path, k + 1)

RECURSIVE ValueAt(_, _, _)
ValueAt(m, path, k) ==
    IF k = NumSegments(path)
    THEN m[Segment(path, k)]
    ELSE ValueAt(m[Segment(path, k)].m, path, k + 1)

\* C9: a path of maxDepth+1 or more segments always fails with the
\* depth-exceeded error, whatever the document holds; a path of exactly
\* maxDepth segments is not rejected by the depth check and succeeds when
\* the document contains it.
C9_DepthBoundary ==
    /\ (pc = "returned" /\ NumSegments(arg.path) > arg.maxDepth)
          => ret.err = "depth"
    /\ (pc = "returned" /\ NumSegments(arg.path) = arg.maxDepth)
          => /\ ret.err # "depth"
             /\ Holds(arg.data, arg.path, 1)
                  => ret.err = "none" /\ ret.value = ValueAt(arg.data, arg.path, 1)

\* a path of 3 segments that the document holds was refused at maxDepth = 2
C9_Witness ==
    /\ pc = "returned"
    /\ arg.data = DocNested
    /\ arg.path = S(<<"a", ".", "b", ".", "a">>)
    /\ arg.maxDepth = 2
    /\ Holds(arg.data, arg.path, 1)
    /\ ret.err = "depth"

\* C14 (as stated): with the empty path ExtractClaim fails with the
\* not-found error and returns no value, for every document and every
\* maxDepth >= 1.
C14_EmptyPathNotFound ==
    (pc = "returned" /\ arg.path = <<>> /\ arg.maxDepth >= 1)
        => ret.err = "notfound" /\ ret.value = Nil

\* where the traversal of a document along a path stops: at the first
\* segment whose key the current object lacks ("absent"), at the first
\* non-terminal segment whose value is no object ("scalar"), or at the
\* terminal segment ("found")
RECURSIVE StopsAt(_, _, _)
StopsAt(m, path, k) ==
    IF Segment(path, k) \notin DOMAIN m THEN [why |-> "absent", k |-> k]
    ELSE IF k = NumSegments(path) THEN [why |-> "found", k |-> k]
    ELSE IF m[Segment(path, k)].t # "object" THEN [why |-> "scalar", k |-> k]
    ELSE StopsAt(m[Segment(path, k)].m, path, k + 1)

\* C15: for a path within maxDepth, when a non-terminal segment's key is
\* present but its value is no object (a list, a string, a number, a boolean
\* or null) ExtractClaim fails with the not-an-object error naming that
\* segment; when a segment's key is absent from the current object it fails
\* with the not-found error naming the whole path; no value is returned in
\* either case.
C15_TraversalErrors ==
    (pc = "returned" /\ NumSegments(arg.path) <= arg.maxDepth) =>
        LET stop == StopsAt(arg.data, arg.path, 1)
        IN  /\ stop.why = "scalar" =>
                  /\ ret.err = "notobject"
                  /\ ret.detail = Segment(arg.path, stop.k)
                  /\ ret.value = Nil
            /\ stop.why = "absent" =>
                  /\ ret.err = "notfound"
                  /\ ret.detail = arg.path
                  /\ ret.value = Nil

\* the path "b.a" was refused on {"a":["x"],"b":null}: b is present, and null
C15_Witness ==
    /\ pc = "returned"
    /\ arg.data = DocFlat
    /\ arg.path = S(<<"b", ".", "a">>)
    /\ arg.maxDepth >= 2
    /\ ret.err = "notobject"
    /\ ret.detail = KB

\* C16: for a path within maxDepth all of whose segments exist, ExtractClaim
\* returns the terminal segment's value as it is, without error, whatever its
\* type; a key present with the value null is such a success, and a path the
\* document does not hold is an error.
C16_TerminalValueAsIs ==
    (pc = "returned" /\ NumSegments(arg.path) <= arg.maxDepth) =>
        IF Holds(arg.data, arg.path, 1)
        THEN ret.err = "none" /\ ret.value = ValueAt(arg.data, arg.path, 1)
        ELSE ret.err \in {"notfound", "notobject"} /\ ret.value = Nil

\* the key b of {"a":["x"],"b":null} was found, with the value null
C16_Witness ==
    /\ pc = "returned"
    /\ arg.data = DocFlat
    /\ arg.path = KB
    /\ arg.maxDepth = 1
    /\ ret.err = "none"
    /\ ret.value = Nil

---------------------------------------------------------------------------
(* Spec: New builds a handler from a drawn configuration, a drawn request  *)
(* arrives, and ServeHTTP runs on it step by step.                         *)

\* {"alg":"H","sub":"h"}
SegHeader == S(<<"e","y","J","h","b","G","c","i","O","i","J","I","I","i","w","i","c","3","V","i","I","j","o","i","a","C","J","9">>)
\* {"sub":"x","a":{"b":["p","q"]}}
SegPayload == S(<<"e","y","J","z","d","W","I","i","O","i","J","4","I","i","w","i","Y","S","I","6","e","y","J","i","I","j","p","b","I","n","A","i","L","C","J","x","I","l","1","9","f","Q">>)
\* {"sub":"a\r\nb c"}
SegPayloadCRLF == S(<<"e","y","J","z","d","W","I","i","O","i","J","h","X","H","J","c","b","m","I","g","Y","y","J","9">>)
\* {"sub":null,"a":{"b":null}}
SegPayloadNull == S(<<"e","y","J","z","d","W","I","i","O","m","5","1","b","G","w","s","I","m","E","i","O","n","s","i","Y","i","I","6","b","n","V","s","b","H","1","9">>)
\* null
SegNull == S(<<"b","n","V","s","b","A">>)
\* [1]
SegArray == S(<<"W","z","F","d">>)
\* not base64url
SegNotBase64 == S(<<"e","!">>)
SegSig == S(<<"s","i","g">>)

Bearer == S(<<"B","e","a","r","e","r"," ">>)

Token(h, p, sig) == h \o <<Dot>> \o p \o <<Dot>> \o sig

\* the values of the credential header: a list, empty when the header is
\* absent
Credentials ==
    { <<>>,
      <<S(<<>>)>>,
      <<Bearer \o Token(SegHeader, SegPayload, SegSig)>>,
      <<Bearer \o Token(SegHeader, SegPayloadCRLF, SegSig)>>,
      <<Bearer \o Token(SegHeader, SegPayloadNull, <<>>)>>,
      <<Bearer \o Token(SegHeader, SegNull, SegSig)>>,
      <<Bearer \o SegHeader \o <<Dot>> \o SegPayload>>,
      <<Bearer \o Token(SegHeader, SegNotBase64, SegSig)>>,
      <<Bearer \o Token(SegHeader, SegArray, SegSig)>> }

\* inbound requests: the credential in Authorization and in X-Real-Ip, a
\* Host header, and X-User-Id absent or set by the client
Requests ==
    { LET all == (HAuthorization :> cred) @@ (HRealIp :> cred)
                 @@ (HHost :> <<S(<<"h">>)>>) @@ (HUserId :> user)
      IN  [k \in {x \in DOMAIN all : all[x] # <<>>} |-> all[k]] :
        cred \in Credentials, user \in {<<>>, <<S(<<"b">>)>>} }

Mapping(path, name, override, format) ==
    [ClaimPath |-> path, HeaderName |-> name, Override |-> override,
     ArrayFormat |-> format]

KSub == S(<<"s","u","b">>)

MappingPool ==
    { Mapping(KSub, HUserId, FALSE, FormatComma),
      Mapping(S(<<"a",".","b">>), HUserIdLower, TRUE, FormatJSON),
      Mapping(S(<<"a",".","b">>), HRole, TRUE, FormatComma),
      Mapping(KSub, HHostUpper, TRUE, <<>>),
      Mapping(KAlg, S(<<"a","u","t","h","o","r","i","z","a","t","i","o","n">>), TRUE, FormatComma) }

DefaultMaxClaimDepth == 10
DefaultMaxHeaderSize == 8192

\* configurations handed to New
Configs ==
    { [SourceHeader |-> src[1], TokenPrefix |-> Bearer, Claims |-> claims,
       Sections |-> sections, ContinueOnError |-> coe, RemoveSourceHeader |-> src[2],
       MaxClaimDepth |-> lim[1], MaxHeaderSize |-> lim[2],
       LogLevel |-> S(<<"w","a","r","n">>), StrictMode |-> FALSE] :
        src \in {<<HAuthorization, FALSE>>, <<HAuthorization, TRUE>>,
                 <<HRealIp, TRUE>>},
        claims \in BoundedSeq(MappingPool, MaxMappings),
        sections \in {<<SectionPayload>>, <<SectionPayload, SectionHeader>>,
                      <<SectionHeader, SectionPayload>>},
        coe \in BOOLEAN,
        lim \in {<<DefaultMaxClaimDepth, DefaultMaxHeaderSize>>,
                 <<1, DefaultMaxHeaderSize>>,
                 <<DefaultMaxClaimDepth, MaxSizeBound>>} }

\* the default configuration with one mapping
BaseConfig ==
    [SourceHeader |-> HAuthorization, TokenPrefix |-> Bearer,
     Claims |-> <<Mapping(KSub, HUserId, FALSE, FormatComma)>>,
     Sections |-> <<SectionPayload>>, ContinueOnError |-> TRUE,
     RemoveSourceHeader |-> FALSE, MaxClaimDepth |-> DefaultMaxClaimDepth,
     MaxHeaderSize |-> DefaultMaxHeaderSize, LogLevel |-> S(<<"w","a","r","n">>),
     StrictMode |-> FALSE]

\* configurations that break one rule of Validate each
InvalidConfigs ==
    { [BaseConfig EXCEPT !.Claims = <<Mapping(<<>>, HUserId, FALSE, FormatComma)>>],
      [BaseConfig EXCEPT !.Claims = <<Mapping(KSub, <<>>, FALSE, FormatComma)>>],
      [BaseConfig EXCEPT !.Claims = <<Mapping(KSub, HUserId, FALSE, S(<<"c","s","v">>))>>],
      [BaseConfig EXCEPT !.Sections = <<>>],
      [BaseConfig EXCEPT !.Sections = <<SectionPayload, S(<<"b","o","d","y">>)>>],
      [BaseConfig EXCEPT !.MaxClaimDepth = 0],
      [BaseConfig EXCEPT !.MaxHeaderSize = 0],
      [BaseConfig EXCEPT !.MaxHeaderSize = -1],
      [BaseConfig EXCEPT !.LogLevel = S(<<"a","l","l">>)] }

Init ==
    /\ pc = "new"
    /\ config \in Configs \cup InvalidConfigs
    /\ arg = NoCall
    /\ ret = NoCall
    /\ req = NoHeaders
    /\ arrival = NoHeaders
    /\ inv = NoInvocation

\* New: a handler for a configuration that validates, an error otherwise
New ==
    /\ pc = "new"
    /\ ret' = [err |-> Validate(config)]
    /\ pc' = IF Validate(config) = "none" THEN "ready" ELSE "failed"
    /\ UNCHANGED <<arg, req, arrival, config, inv>>

\* a request arrives and ServeHTTP is entered
Receive ==
    /\ pc = "ready"
    /\ \E r \in Requests : inv' = NewInvocation(r)
    /\ pc' = "serving"
    /\ UNCHANGED <<arg, ret, req, arrival, config>>

StepReadSourceHeader ==
    /\ pc = "serving" /\ inv.pc = "start"
    /\ inv' = ReadSourceHeader(config, inv)
    /\ UNCHANGED <<pc, arg, ret, req, arrival, config>>

StepParseToken ==
    /\ pc = "serving" /\ inv.pc = "extracted"
    /\ inv' = ParseToken(config, inv)
    /\ UNCHANGED <<pc, arg, ret, req, arrival, config>>

StepProcessMapping ==
    /\ pc = "serving" /\ inv.pc = "decoded"
    /\ inv.idx <= Len(config.Claims)
    /\ inv' = ProcessMapping(config, inv)
    /\ UNCHANGED <<pc, arg, ret, req, arrival, config>>

StepFinish ==
    /\ pc = "serving" /\ inv.pc = "decoded"
    /\ inv.idx > Len(config.Claims)
    /\ inv' = Finish(config, inv)
    /\ UNCHANGED <<pc, arg, ret, req, arrival, config>>

Next ==
    \/ New
    \/ Receive
    \/ StepReadSourceHeader
    \/ StepParseToken
    \/ StepProcessMapping
    \/ StepFinish

Spec == Init /\ [][Next]_vars

---------------------------------------------------------------------------
(* Claims about ServeHTTP (Spec).  The conditions of the claims            *)
(* are computed from the configuration and from the headers the request    *)
(* arrived with, not from the handler's position.                          *)

\* the value of the source header on a request with headers h
SourceValue(c, h) == HeaderGet(h, c.SourceHeader)

\* the outcome of decoding the credential in h
Decoded(c, h) == ParseJWT(ExtractToken(SourceValue(c, h), c.TokenPrefix), FALSE)

\* the source header is absent or empty, or the token does not decode
Undecodable(c, h) == SourceValue(c, h) = <<>> \/ Decoded(c, h).err # "none"

\* ServeHTTP has returned
Completed == pc = "serving" /\ inv.pc = "done"

\* C1 (as stated): whatever the accepted configuration and the request, a
\* header whose lowercased name is in the protected set reaches the next
\* handler exactly as it arrived: it is neither added, changed nor removed.
C1_ProtectedUntouched ==
    (Completed /\ inv.nextCalls > 0) =>
        \A k \in DOMAIN inv.arrival \cup DOMAIN inv.forwarded :
            ToLower(k) \in protectedHeaders =>
                /\ k \in DOMAIN inv.arrival
                /\ k \in DOMAIN inv.forwarded
                /\ inv.forwarded[k] = inv.arrival[k]

\* C3: with continueOnError false, when the source header is absent or empty
\* or the token does not decode, ServeHTTP returns without having called the
\* next handler, with the request's headers those of arrival, and with a 401
\* response whose error field is "unauthorized".
C3_FailClosedRejects ==
    (Completed /\ ~config.ContinueOnError /\ Undecodable(config, inv.arrival)) =>
        /\ inv.nextCalls = 0
        /\ inv.req = inv.arrival
        /\ inv.resp.status = 401
        /\ inv.resp.error = "unauthorized"

C3_Witness ==
    /\ Completed
    /\ ~config.ContinueOnError
    /\ SourceValue(config, inv.arrival) # <<>>
    /\ Decoded(config, inv.arrival).err = "encoding"
    /\ Len(config.Claims) = 2
    /\ inv.resp.status = 401
    /\ inv.nextCalls = 0

\* C4: with continueOnError true, when the source header is absent or empty
\* or the token does not decode, ServeHTTP returns having called the next
\* handler once with the headers the request arrived with (nothing injected,
\* the source header kept even under removeSourceHeader) and without having
\* written a response.
C4_FailOpenForwardsUnchanged ==
    (Completed /\ config.ContinueOnError /\ Undecodable(config, inv.arrival)) =>
        /\ inv.nextCalls = 1
        /\ inv.forwarded = inv.arrival
        /\ inv.req = inv.arrival
        /\ inv.resp = NoResponse

C4_Witness ==
    /\ Completed
    /\ config.ContinueOnError
    /\ config.RemoveSourceHeader
    /\ SourceValue(config, inv.arrival) # <<>>
    /\ Decoded(config, inv.arrival).err = "json"
    /\ inv.nextCalls = 1
    /\ CanonicalMIMEHeaderKey(config.SourceHeader) \in DOMAIN inv.forwarded

\* the mappings attempted so far are the first ones of the configuration,
\* in its order
AttemptedInOrder ==
    /\ Len(inv.trace) <= Len(config.Claims)
    /\ \A i \in 1..Len(inv.trace) : inv.trace[i].name = config.Claims[i].HeaderName

\* C5: once ParseJWT has succeeded the request is never rejected and is
\* always handed to the next handler, under either value of continueOnError:
\* while the loop runs, nothing has been written to the response, the next
\* handler has not been called yet and the loop is at the mapping after the
\* ones attempted, whatever their outcomes; when ServeHTTP has returned,
\* every mapping has been attempted in the order of the configuration, the
\* next handler has been called once and no response has been written.
C5_DecodedAlwaysForwarded ==
    /\ (pc = "serving" /\ inv.pc = "decoded") =>
           /\ inv.resp = NoResponse
           /\ inv.nextCalls = 0
           /\ inv.idx \in 1..(Len(config.Claims) + 1)
           /\ Len(inv.trace) = inv.idx - 1
           /\ AttemptedInOrder
    /\ (Completed /\ inv.jwt # NoJWT) =>
           /\ inv.resp = NoResponse
           /\ inv.nextCalls = 1
           /\ Len(inv.trace) = Len(config.Claims)
           /\ AttemptedInOrder

C5_Witness ==
    /\ Completed
    /\ ~config.ContinueOnError
    /\ ~Undecodable(config, inv.arrival)
    /\ inv.nextCalls = 1
    /\ Len(inv.trace) = 2
    /\ inv.trace[1].outcome \in {"notfound", "inject"}
    /\ inv.trace[2].outcome = "injected"

\* the map a section names
SectionData(jwt, section) ==
    IF section = SectionPayload THEN jwt.Payload ELSE jwt.Header

\* the positions of the configured sections in which the path resolves
ResolvingSections(c, jwt, path) ==
    { s \in 1..Len(c.Sections) :
        ExtractClaim(SectionData(jwt, c.Sections[s]), path, c.MaxClaimDepth).err = "none" }

\* the value of the path in the first configured section that has it
FirstResolved(c, jwt, path) ==
    LET hits == ResolvingSections(c, jwt, path)
        s == CHOOSE x \in hits : \A y \in hits : x <= y
    IN  ExtractClaim(SectionData(jwt, c.Sections[s]), path, c.MaxClaimDepth).value

Serialized(c, jwt, cm) ==
    ConvertClaimToString(FirstResolved(c, jwt, cm.ClaimPath), cm.ArrayFormat)

\* the mappings C6 speaks of, for a request that arrived with headers h
Eligible(c, jwt, h, cm) ==
    /\ ResolvingSections(c, jwt, cm.ClaimPath) # {}
    /\ ToLower(cm.HeaderName) \notin protectedHeaders
    /\ CanonicalMIMEHeaderKey(cm.HeaderName) # CanonicalMIMEHeaderKey(c.SourceHeader)
    /\ Serialized(c, jwt, cm).err = "none"
    /\ ByteLen(Serialized(c, jwt, cm).value) <= c.MaxHeaderSize
    /\ (HeaderGet(h, cm.HeaderName) = <<>> \/ cm.Override)

\* C6: when the token decodes, for every mapping whose path resolves in a
\* configured section, whose target is neither protected nor the source
\* header, whose serialized value is within maxHeaderSize bytes, and whose
\* target was absent or empty on arrival or is to be overridden, the target
\* header of the forwarded request is the sanitized serialized value of the
\* claim (taken from the first section that has it).
C6_MappedHeaderValue ==
    Completed =>
        LET d == Decoded(config, inv.arrival)
        IN  (SourceValue(config, inv.arrival) # <<>> /\ d.err = "none") =>
                \A i \in 1..Len(config.Claims) :
                    LET cm == config.Claims[i]
                        k == CanonicalMIMEHeaderKey(cm.HeaderName)
                    IN  Eligible(config, d.jwt, inv.arrival, cm) =>
                            /\ k \in DOMAIN inv.forwarded
                            /\ inv.forwarded[k] =
                                   <<SanitizeHeaderValue(Serialized(config, d.jwt, cm).value,
                                                         config.MaxHeaderSize).value>>

C6_Witness ==
    /\ Completed
    /\ ~Undecodable(config, inv.arrival)
    /\ \E i \in 1..Len(config.Claims) :
           LET cm == config.Claims[i]
               jwt == Decoded(config, inv.arrival).jwt
               str == Serialized(config, jwt, cm).value
           IN  /\ Eligible(config, jwt, inv.arrival, cm)
               /\ Cardinality(ResolvingSections(config, jwt, cm.ClaimPath)) = 2
               /\ SanitizeHeaderValue(str, config.MaxHeaderSize).value # str
               /\ HeaderGet(inv.forwarded, cm.HeaderName)
                      = SanitizeHeaderValue(str, config.MaxHeaderSize).value

\* the mapping loop of ServeHTTP has run to its end
LoopDone == Completed /\ inv.idx > Len(config.Claims)

\* C11: for each mapping the sections are searched in configured order: the
\* section used is the first one in which the path resolves (a later one is
\* used only when every earlier one failed), the value serialized is the one
\* found there, and the mapping is skipped as not found only when the path
\* resolves in no configured section.
C11_FirstSectionWins ==
    LoopDone =>
        \A i \in 1..Len(config.Claims) :
            LET cm == config.Claims[i]
                hits == ResolvingSections(config, inv.jwt, cm.ClaimPath)
            IN  IF hits = {}
                THEN inv.trace[i].outcome = "notfound"
                ELSE /\ inv.trace[i].outcome # "notfound"
                     /\ \E s \in hits :
                           /\ \A y \in hits : s <= y
                           /\ inv.trace[i].section = config.Sections[s]
                     /\ inv.trace[i].outcome = "injected" =>
                           inv.trace[i].value = Serialized(config, inv.jwt, cm).value

\* with sections [payload, header], one mapping took a claim that both
\* sections hold from the payload and another took a claim that only the
\* header holds from the header
C11_Witness ==
    /\ LoopDone
    /\ config.Sections = <<SectionPayload, SectionHeader>>
    /\ Len(config.Claims) = 2
    /\ \E i, j \in 1..2 :
          /\ config.Claims[i].ClaimPath = KSub
          /\ KSub \in DOMAIN inv.jwt.Header
          /\ inv.trace[i].section = SectionPayload
          /\ config.Claims[j].ClaimPath = KAlg
          /\ inv.trace[j].section = SectionHeader
          /\ inv.trace[j].outcome = "injected"

\* the mappings whose value ServeHTTP wrote to a header other than the
\* source header
WroteOther(c, v, i) ==
    /\ v.trace[i].outcome = "injected"
    /\ ToLower(c.Claims[i].HeaderName) \notin protectedHeaders
    /\ CanonicalMIMEHeaderKey(c.Claims[i].HeaderName) # CanonicalMIMEHeaderKey(c.SourceHeader)
    /\ (HeaderGet(v.arrival, c.Claims[i].HeaderName) = <<>> \/ c.Claims[i].Override)

\* C18: when the token decodes, the source header stays on the request while
\* the mappings are processed; with removeSourceHeader true the request that
\* is forwarded has no source header, whatever the mappings wrote to it, and
\* still has the headers the mappings wrote under other names; with
\* removeSourceHeader false the forwarded request has its source header.
C18_SourceRemovedLast ==
    LET k == CanonicalMIMEHeaderKey(config.SourceHeader)
    IN  /\ (pc = "serving" /\ inv.pc = "decoded") => k \in DOMAIN inv.req
        /\ LoopDone =>
              /\ inv.nextCalls = 1
              /\ (k \in DOMAIN inv.forwarded) = ~config.RemoveSourceHeader
              /\ \A i \in 1..Len(config.Claims) :
                    WroteOther(config, inv, i) =>
                        HeaderGet(inv.forwarded, config.Claims[i].HeaderName)
                            = SanitizeHeaderValue(inv.trace[i].value,
                                                  config.MaxHeaderSize).value

\* with removeSourceHeader true, one mapping wrote to the source header and
\* another to X-User-Id: the forwarded request has the second and no source
\* header
C18_Witness ==
    /\ LoopDone
    /\ config.RemoveSourceHeader
    /\ config.SourceHeader = HAuthorization
    /\ Len(config.Claims) = 2
    /\ config.Claims[1].HeaderName = S(<<"a","u","t","h","o","r","i","z","a","t","i","o","n">>)
    /\ inv.trace[1].outcome = "injected"
    /\ config.Claims[2].HeaderName = HUserId
    /\ WroteOther(config, inv, 2)
    /\ HeaderGet(inv.forwarded, HUserId) # <<>>
    /\ HAuthorization \notin DOMAIN inv.forwarded

\* what C19 says of the configuration of a handler
WellFormedConfig(c) ==
    /\ Len(c.Claims) > 0
    /\ \A i \in 1..Len(c.Claims) :
          c.Claims[i].ClaimPath # <<>> /\ c.Claims[i].HeaderName # <<>>
    /\ \A i, j \in 1..Len(c.Claims) :
          i # j => ToLower(c.Claims[i].HeaderName) # ToLower(c.Claims[j].HeaderName)
    /\ Len(c.Sections) > 0
    /\ \A i \in 1..Len(c.Sections) : c.Sections[i] \in {SectionPayload, SectionHeader}
    /\ c.MaxClaimDepth > 0
    /\ c.MaxHeaderSize > 0

\* C19: New yields a handler only for a configuration that Validate accepts
\* and yields an error and no handler otherwise; so a handler, before and
\* while it serves a request, has a non-empty list of mappings with non-empty
\* paths and header names, no two header names equal but for case, a
\* non-empty list of sections naming "payload" and "header" only, and
\* positive maxClaimDepth and maxHeaderSize.
C19_HandlerOnlyIfValid ==
    /\ pc \in {"ready", "serving"} => ret.err = "none" /\ WellFormedConfig(config)
    /\ pc = "failed" => ret.err # "none"
    /\ (pc # "new" /\ ~WellFormedConfig(config)) => pc = "failed"

\* New refused a configuration with two mappings whose header names differ
\* in case only
C19_Witness ==
    /\ pc = "failed"
    /\ Len(config.Claims) = 2
    /\ config.Claims[1].HeaderName = HUserId
    /\ config.Claims[2].HeaderName = HUserIdLower
    /\ ret.err = "duplicate"

\* the canonical keys the configuration lets the pipeline touch: the
\* targets of the mappings and the source header
TouchableKeys(c) ==
    {CanonicalMIMEHeaderKey(c.Claims[i].HeaderName) : i \in 1..Len(c.Claims)}
    \cup {CanonicalMIMEHeaderKey(c.SourceHeader)}

\* headers g and h agree on every key outside keys
SameOutside(keys, g, h) ==
    /\ DOMAIN g \ keys = DOMAIN h \ keys
    /\ \A k \in DOMAIN g \ keys : g[k] = h[k]

\* C27: the pipeline modifies only what the configuration names.  A header
\* whose name is neither the target of a mapping nor the source header has,
\* at every stage and in the forwarded request, the value it arrived with;
\* on the path of a decoded token nothing is written to the response.
C27_FrameOfPipeline ==
    pc = "serving" =>
        /\ SameOutside(TouchableKeys(config), inv.req, inv.arrival)
        /\ inv.nextCalls = 1
              => SameOutside(TouchableKeys(config), inv.forwarded, inv.arrival)
        /\ inv.pc = "decoded" \/ LoopDone => inv.resp = NoResponse

\* the source header X-Real-Ip was removed and X-Role injected; Authorization
\* and Host, which the configuration does not name, were forwarded as they
\* arrived
C27_Witness ==
    /\ LoopDone
    /\ config.SourceHeader = HRealIp /\ config.RemoveSourceHeader
    /\ CanonicalMIMEHeaderKey(HAuthorization) \notin TouchableKeys(config)
    /\ HRealIp \notin DOMAIN inv.forwarded
    /\ HeaderGet(inv.forwarded, HRole) # <<>>
    /\ HAuthorization \in DOMAIN inv.arrival
    /\ inv.forwarded[HAuthorization] = inv.arrival[HAuthorization]
    /\ inv.forwarded[HHost] = inv.arrival[HHost]

\* the headers of g that are not as they are in h
Written(g, h) == {k \in DOMAIN g : k \notin DOMAIN h \/ g[k] # h[k]}

\* C28: every header value the pipeline has written is sanitized.  It is a
\* single value without a code point below 0x20 and without 0x7F, without
\* white space at either end, and it is the sanitized form of the
\* serialization of a claim that a mapping to this header produced and
\* whose byte length is within maxHeaderSize.
C28_WrittenValuesSanitized ==
    pc = "serving" =>
        \A k \in Written(inv.req, inv.arrival) :
            /\ Len(inv.req[k]) = 1
            /\ NoControl(inv.req[k][1])
            /\ TrimSpace(inv.req[k][1]) = inv.req[k][1]
            /\ \E i \in 1..Len(inv.trace) :
                  /\ inv.trace[i].outcome = "injected"
                  /\ CanonicalMIMEHeaderKey(inv.trace[i].name) = k
                  /\ ByteLen(inv.trace[i].value) <= config.MaxHeaderSize
                  /\ inv.req[k][1] = TrimSpace(StripControl(inv.trace[i].value))

\* the claim "a\r\nb c" was written to X-User-Id as "ab c"
C28_Witness ==
    /\ LoopDone
    /\ \E i \in 1..Len(inv.trace) :
          /\ inv.trace[i].outcome = "injected"
          /\ inv.trace[i].value = <<97, 13, 10, 98, 32, 99>>
    /\ HUserId \in Written(inv.forwarded, inv.arrival)
    /\ inv.forwarded[HUserId] = <<S(<<"a","b"," ","c">>)>>

\* the configuration c with its mappings in the order f
Reordered(c, f) == [c EXCEPT !.Claims = [i \in 1..Len(c.Claims) |-> c.Claims[f[i]]]]

\* the headers ServeHTTP forwards for a request with headers h whose token
\* decoded to jwt, under configuration c
ForwardedFor(c, h, token, jwt) ==
    ServeHTTP(c, [NewInvocation(h) EXCEPT !.pc = "decoded", !.token = token,
                                          !.jwt = jwt, !.idx = 1]).forwarded

\* C29: for a configuration that New accepted (the target names of its
\* mappings pairwise distinct ignoring case) the forwarded headers do not
\* depend on the order of the mappings: the same request served under any
\* permutation of the mapping list is forwarded with the same headers.
C29_MappingOrderIrrelevant ==
    LoopDone =>
        /\ Validate(config) = "none"
        /\ \A f \in Permutations(1..Len(config.Claims)) :
              /\ Validate(Reordered(config, f)) = "none"
              /\ ForwardedFor(Reordered(config, f), inv.arrival, inv.token, inv.jwt)
                    = inv.forwarded

\* two mappings, the first of which failed and the second of which wrote
\* its header: in the other order the forwarded headers are the same
C29_Witness ==
    /\ LoopDone
    /\ Len(config.Claims) = 2
    /\ inv.trace[1].outcome # "injected"
    /\ inv.trace[2].outcome = "injected"
    /\ inv.forwarded # inv.arrival
    /\ ForwardedFor(Reordered(config, <<2, 1>>), inv.arrival, inv.token, inv.jwt)
          = inv.forwarded

\* the path of mapping cm resolves, in the first configured section that
\* has it, to null
ResolvesToNull(c, jwt, cm) ==
    /\ ResolvingSections(c, jwt, cm.ClaimPath) # {}
    /\ FirstResolved(c, jwt, cm.ClaimPath) = Nil

\* C30: a mapping whose claim resolves to null is a successful mapping with
\* the empty text as its value.  The null is taken from the first section
\* that has the path (a later section is not consulted) and the mapping is
\* not skipped.  For a target that is not protected and not the source
\* header, replace-existing overwrites an existing non-empty value with the
\* empty value, preserve-existing keeps an existing non-empty value, and an
\* absent header is set to the empty value.
C30_NullClaimIsEmptyValue ==
    LoopDone =>
        \A i \in 1..Len(config.Claims) :
            LET cm == config.Claims[i]
                k == CanonicalMIMEHeaderKey(cm.HeaderName)
                hits == ResolvingSections(config, inv.jwt, cm.ClaimPath)
            IN  ResolvesToNull(config, inv.jwt, cm) =>
                    /\ inv.trace[i].outcome = "injected"
                    /\ inv.trace[i].value = <<>>
                    /\ \E s \in hits :
                          /\ \A y \in hits : s <= y
                          /\ inv.trace[i].section = config.Sections[s]
                    /\ (ToLower(cm.HeaderName) \notin protectedHeaders
                         /\ k # CanonicalMIMEHeaderKey(config.SourceHeader)) =>
                           IF HeaderGet(inv.arrival, cm.HeaderName) # <<>> /\ ~cm.Override
                           THEN inv.forwarded[k] = inv.arrival[k]
                           ELSE k \in DOMAIN inv.forwarded /\ inv.forwarded[k] = << <<>> >>

\* sub is null in the payload and "h" in the header, a.b is null in the
\* payload, the sections are [payload, header]: the mapping of sub took the
\* null of the payload and kept the X-User-Id the request arrived with
\* (preserve-existing), the mapping of a.b set the absent X-Role to the
\* empty value
C30_Witness ==
    /\ LoopDone
    /\ config.Sections = <<SectionPayload, SectionHeader>>
    /\ config.Claims = <<Mapping(KSub, HUserId, FALSE, FormatComma),
                         Mapping(S(<<"a",".","b">>), HRole, TRUE, FormatComma)>>
    /\ KSub \in DOMAIN inv.jwt.Payload /\ inv.jwt.Payload[KSub] = Nil
    /\ KSub \in DOMAIN inv.jwt.Header /\ inv.jwt.Header[KSub] = VString(S(<<"h">>))
    /\ inv.trace[1].section = SectionPayload
    /\ inv.trace[1].outcome = "injected"
    /\ HeaderGet(inv.arrival, HUserId) = S(<<"b">>)
    /\ HeaderGet(inv.forwarded, HUserId) = S(<<"b">>)
    /\ HRole \notin DOMAIN inv.arrival
    /\ HRole \in DOMAIN inv.forwarded
    /\ inv.forwarded[HRole] = << <<>> >>

\* a.b is null in the payload: the mapping with replace-existing wrote the
\* empty value over the X-User-Id the request arrived with
C30_Overwritten ==
    /\ LoopDone
    /\ config.Claims = <<Mapping(S(<<"a",".","b">>), HUserIdLower, TRUE, FormatJSON)>>
    /\ ResolvesToNull(config, inv.jwt, config.Claims[1])
    /\ HeaderGet(inv.arrival, HUserId) = S(<<"b">>)
    /\ HUserId \in DOMAIN inv.forwarded
    /\ inv.forwarded[HUserId] = << <<>> >>

---------------------------------------------------------------------------
(* SpecParse: ParseJWT applied to a drawn token.                           *)

\* {}
SegEmptyObject == S(<<"e","3","0">>)
\* {"a":1}
SegObject == S(<<"e","y","J","h","I","j","o","x","f","Q">>)
\* "s"
SegString == S(<<"I","n","M","i">>)
\* 1
SegNumber == S(<<"M","Q">>)
\* true
SegTrue == S(<<"d","H","J","1","Z","Q">>)
\* {a}
SegNotJSON == S(<<"e","2","F","9">>)
\* the empty segment
SegEmpty == S(<<>>)

\* segments of the tokens of three segments
ParseSegments ==
    { SegHeader, SegEmptyObject, SegObject, SegNull, SegArray, SegString,
      SegNumber, SegTrue, SegNotJSON, SegNotBase64, SegEmpty }

\* segments of the tokens of any number of segments
CountSegments == {SegEmptyObject, SegNotBase64, SegEmpty}

\* the tokens handed to ParseJWT: the empty token is the one segment ""
ParseTokens ==
    { Token(h, p, sig) : h \in ParseSegments, p \in ParseSegments,
                         sig \in {SegSig, SegEmpty} }
    \cup { Join(segs, <<Dot>>) : segs \in BoundedSeq(CountSegments, MaxSegments) }

InitParse ==
    /\ pc = "call"
    /\ arg \in [token : ParseTokens, strictMode : BOOLEAN]
    /\ ret = NoCall
    /\ req = NoHeaders
    /\ arrival = NoHeaders
    /\ config = NoConfig
    /\ inv = NoInvocation

ParseJWTCall ==
    /\ pc = "call"
    /\ ret' = ParseJWT(arg.token, arg.strictMode)
    /\ pc' = "returned"
    /\ UNCHANGED <<arg, req, arrival, config, inv>>

NextParse == ParseJWTCall

SpecParse == InitParse /\ [][NextParse]_vars

---------------------------------------------------------------------------
(* Claims about ParseJWT (SpecParse).                                      *)

\* the number of '.' in a token
Dots(token) == Cardinality({i \in 1..Len(token) : token[i] = Dot})

\* the text between the (k-1)-th and the k-th '.' of a token
TokenSegment(token, k) ==
    LET dots == {i \in 1..Len(token) : token[i] = Dot}
        nth(n) == IF n = 0 THEN 0
                  ELSE IF n > Cardinality(dots) THEN Len(token) + 1
                  ELSE CHOOSE i \in dots : Cardinality({j \in dots : j <= i}) = n
    IN  SubSeq(token, nth(k - 1) + 1, nth(k) - 1)

\* the bytes are one JSON value, and that value is an object
IsJSONObject(bytes) ==
    LET r == JValue(bytes, 1)
    IN  r.ok /\ JSkip(bytes, r.i) > Len(bytes) /\ r.v.t = "object"

\* C12 (as stated): for a token of three segments whose first two are
\* base64url, ParseJWT fails with the JSON error whenever the bytes of
\* segment 0 or of segment 1 are anything but a JSON object (an array, a
\* string, a number, a boolean, null, or no JSON at all), and returns a JWT
\* only when both are JSON objects.
C12_NonObjectRejected ==
    (pc = "returned" /\ Dots(arg.token) = 2) =>
        LET h == Base64RawURLDecode(TokenSegment(arg.token, 1))
            p == Base64RawURLDecode(TokenSegment(arg.token, 2))
        IN  (h.err = "none" /\ p.err = "none") =>
                /\ ~(IsJSONObject(h.bytes) /\ IsJSONObject(p.bytes))
                      => ret.err = "json" /\ ret.jwt = NoJWT
                /\ ret.err = "none"
                      => IsJSONObject(h.bytes) /\ IsJSONObject(p.bytes)

\* C13: a token that does not split on '.' into exactly three segments (no
\* dot, the empty token included, one dot, three dots or more) fails with the
\* segment-count error and yields no JWT, whether or not its segments could
\* be decoded; a token of three segments never fails with that error.
C13_SegmentCount ==
    pc = "returned" =>
        IF Dots(arg.token) # 2
        THEN ret.err = "format" /\ ret.jwt = NoJWT
        ELSE ret.err # "format"

\* a token of four segments, the first three of which would parse, was
\* refused for its segment count
C13_Witness ==
    /\ pc = "returned"
    /\ arg.token = Join(<<SegEmptyObject, SegEmptyObject, SegEmpty, SegEmptyObject>>, <<Dot>>)
    /\ ret.err = "format"

\* C25: ParseJWT reports the first failure in this order: the segment
\* count, the base64url decoding of segment 0, that of segment 1, the JSON
\* of segment 0, the JSON of segment 1 (and, in strict mode, the "alg"
\* member last).  Both segments are decoded before either is unmarshalled,
\* so a token whose segment 0 is not JSON and whose segment 1 is not
\* base64url fails with the encoding error.  A parse that fails returns no
\* JWT.
C25_FirstFailure ==
    pc = "returned" =>
        LET h == Base64RawURLDecode(TokenSegment(arg.token, 1))
            p == Base64RawURLDecode(TokenSegment(arg.token, 2))
            first == IF Dots(arg.token) # 2 THEN "format"
                     ELSE IF h.err # "none" THEN "encoding"
                     ELSE IF p.err # "none" THEN "encoding"
                     ELSE IF JSONUnmarshalMap(h.bytes).err # "none" THEN "json"
                     ELSE IF JSONUnmarshalMap(p.bytes).err # "none" THEN "json"
                     ELSE IF arg.strictMode
                             /\ KAlg \notin DOMAIN JSONUnmarshalMap(h.bytes).m
                          THEN "header"
                     ELSE "none"
        IN  /\ ret.err = first
            /\ ret.err # "none" => ret.jwt = NoJWT

\* segment 0 decodes to bytes that are not JSON, segment 1 is not
\* base64url: the encoding error is the one reported
C25_Witness ==
    /\ pc = "returned"
    /\ arg.token = Token(SegNotJSON, SegNotBase64, SegSig)
    /\ Base64RawURLDecode(SegNotJSON).err = "none"
    /\ JSONUnmarshalMap(Base64RawURLDecode(SegNotJSON).bytes).err # "none"
    /\ ret.err = "encoding"
    /\ ret.jwt = NoJWT

---------------------------------------------------------------------------
(* SpecToken: ExtractToken applied to a drawn header value and prefix.     *)

\* 'B', 'b', space, TAB, 'x'
TokenAlphabet == {66, 98, 32, 9, 120}
TokenValues == BoundedSeq(TokenAlphabet, MaxTokenLen)
\* 'B', space
TokenPrefixes == BoundedSeq({66, 32}, MaxPrefixLen)

InitToken ==
    /\ pc = "call"
    /\ arg \in [value : TokenValues, prefix : TokenPrefixes]
    /\ ret = NoCall
    /\ req = NoHeaders
    /\ arrival = NoHeaders
    /\ config = NoConfig
    /\ inv = NoInvocation

ExtractTokenCall ==
    /\ pc = "call"
    /\ ret' = [value |-> ExtractToken(arg.value, arg.prefix)]
    /\ pc' = "returned"
    /\ UNCHANGED <<arg, req, arrival, config, inv>>

NextToken == ExtractTokenCall

SpecToken == InitToken /\ [][NextToken]_vars

---------------------------------------------------------------------------
(* Claims about ExtractToken (SpecToken).                                  *)

\* value begins with prefix, character for character
StartsWith(value, prefix) ==
    /\ Len(value) >= Len(prefix)
    /\ \A i \in 1..Len(prefix) : value[i] = prefix[i]

\* s from its first to its last character that is no white space
Trimmed(s) ==
    LET solid == {i \in 1..Len(s) : ~IsSpace(s[i])}
    IN  IF solid = {} THEN <<>>
        ELSE SubSeq(s, CHOOSE i \in solid : \A j \in solid : i <= j,
                       CHOOSE i \in solid : \A j \in solid : i >= j)

\* C20: ExtractToken returns the value as it is, untrimmed, when the prefix
\* is empty or the value does not begin with the prefix compared exactly,
\* case included; otherwise it returns what follows the first occurrence of
\* the prefix, with the white space around it trimmed.
C20_ExtractToken ==
    pc = "returned" =>
        IF arg.prefix = <<>> \/ ~StartsWith(arg.value, arg.prefix)
        THEN ret.value = arg.value
        ELSE ret.value = Trimmed([i \in 1..(Len(arg.value) - Len(arg.prefix)) |->
                                     arg.value[i + Len(arg.prefix)]])

\* the prefix "B" was taken once off "B B<TAB>", and the rest returned
\* trimmed
C20_Witness ==
    /\ pc = "returned"
    /\ arg.prefix = <<66>>
    /\ arg.value = <<66, 32, 66, 9>>
    /\ ret.value = <<66>>

---------------------------------------------------------------------------
(* ConvertClaimToString as a pure function                                 *)

MaxListLen == 2

\* scalars, null and one object
ConvertScalars ==
    { VString(S(<<"a">>)), VString(S(<<>>)), VNumber(1), VBool(TRUE), Nil,
      VObject(KA :> VString(S(<<"b">>))) }

\* lists nested inside a list: the empty list and the one-element lists
ConvertInnerLists == {VArray(l) : l \in BoundedSeq(ConvertScalars, 1)}

ConvertLists ==
    {VArray(l) : l \in BoundedSeq(ConvertScalars \cup ConvertInnerLists, MaxListLen)}

ConvertValues == ConvertScalars \cup ConvertLists

\* "json", "comma", and a format that is neither (handled as the default)
ConvertFormats == {FormatJSON, FormatComma, S(<<>>)}

InitConvert ==
    /\ pc = "call"
    /\ arg \in [value : ConvertValues, arrayFormat : ConvertFormats]
    /\ ret = NoCall
    /\ req = NoHeaders
    /\ arrival = NoHeaders
    /\ config = NoConfig
    /\ inv = NoInvocation

ConvertClaimToStringCall ==
    /\ pc = "call"
    /\ pc' = "returned"
    /\ ret' = ConvertClaimToString(arg.value, arg.arrayFormat)
    /\ UNCHANGED <<arg, req, arrival, config, inv>>

NextConvert == ConvertClaimToStringCall

SpecConvert == InitConvert /\ [][NextConvert]_vars

\* the text ", "
CommaSpace == <<44, 32>>

\* C21: a list is rendered according to the array format.  With "json" the
\* result is the JSON array literal of the whole list.  Otherwise it is the
\* elements' own serializations (lists recursively, objects as their JSON
\* object literal, null as the empty text) joined with ", ", and the empty
\* list gives the empty text.  An object is rendered as its JSON object
\* literal whatever the format.
C21_ListRendering ==
    pc = "returned" =>
        LET v == arg.value
            f == arg.arrayFormat
        IN  /\ ret.err = "none"
            /\ v.t = "array" /\ f = FormatJSON =>
                   /\ ret.value = JSONMarshal(v)
                   /\ Head(ret.value) = 91
                   /\ ret.value[Len(ret.value)] = 93
            /\ v.t = "array" /\ f # FormatJSON =>
                   /\ ret.value =
                         Join([i \in 1..Len(v.l) |->
                                  IF v.l[i].t = "object" THEN JSONMarshal(v.l[i])
                                  ELSE IF v.l[i].t = "string" THEN v.l[i].s
                                  ELSE IF v.l[i].t = "nil" THEN <<>>
                                  ELSE ConvertClaimToString(v.l[i], f).value],
                              CommaSpace)
                   /\ v.l = <<>> => ret.value = <<>>
            /\ v.t = "object" =>
                   /\ ret.value = JSONMarshal(v)
                   /\ Head(ret.value) = 123

\* a list holding an object and a nested list, rendered as joined text
C21_Witness ==
    /\ pc = "returned"
    /\ arg.arrayFormat = FormatComma
    /\ arg.value = VArray(<<VObject(KA :> VString(S(<<"b">>))),
                            VArray(<<VString(S(<<"a">>))>>)>>)
    /\ ret.value = S(<<"{","\"","a","\"",":","\"","b","\"","}",","," ","a">>)

---------------------------------------------------------------------------
(* One handler serving several requests at once.  Each goroutine runs      *)
(* ServeHTTP on its own request; the steps of the goroutines interleave.   *)

MaxRequests == 2

SigOther == S(<<"x">>)

\* credentials that differ in the third segment only, decodable or not
ConcurrentCredentials ==
    { <<>>,
      <<Bearer \o Token(SegHeader, SegPayload, SegSig)>>,
      <<Bearer \o Token(SegHeader, SegPayload, <<>>)>>,
      <<Bearer \o Token(SegHeader, SegNotBase64, SegSig)>>,
      <<Bearer \o Token(SegHeader, SegNotBase64, SigOther)>> }

ConcurrentRequests ==
    { LET all == (HAuthorization :> cred) @@ (HHost :> <<S(<<"h">>)>>)
                 @@ (HUserId :> <<S(<<"b">>)>>)
      IN  [k \in {x \in DOMAIN all : all[x] # <<>>} |-> all[k]] :
        cred \in ConcurrentCredentials }

ConcurrentConfigs ==
    { [BaseConfig EXCEPT !.Claims = claims, !.ContinueOnError = mode[1],
                         !.RemoveSourceHeader = mode[2]] :
        claims \in { <<Mapping(KSub, HRole, FALSE, FormatComma)>>,
                     <<Mapping(S(<<"a",".","b">>), HUserIdLower, TRUE, FormatJSON),
                       Mapping(KAlg, HRole, TRUE, FormatComma)>> },
        mode \in {<<FALSE, FALSE>>, <<TRUE, TRUE>>} }

\* the handler exists (New has validated the configuration) and the
\* requests have arrived; arg keeps the configuration New was given
InitConcurrent ==
    /\ pc = "serving"
    /\ config \in {c \in ConcurrentConfigs : Validate(c) = "none"}
    /\ arg = [config |-> config]
    /\ ret = NoCall
    /\ req = NoHeaders
    /\ arrival = NoHeaders
    /\ inv \in {[r \in 1..MaxRequests |-> NewInvocation(rs[r])] :
                   rs \in [1..MaxRequests -> ConcurrentRequests]}

\* goroutine r takes its next step
Goroutine(r) ==
    /\ inv[r].pc # "done"
    /\ inv' = Handle(config, inv, r)
    /\ UNCHANGED <<pc, arg, ret, req, arrival, config>>

NextConcurrent == \E r \in 1..MaxRequests : Goroutine(r)

SpecConcurrent == InitConcurrent /\ [][NextConcurrent]_vars

\* what an invocation did: the response it wrote, the calls of the next
\* handler, and the headers it forwarded
Outcome(v) == [resp |-> v.resp, nextCalls |-> v.nextCalls, forwarded |-> v.forwarded]

\* C22: under every interleaving of the requests one handler serves at the
\* same time, the outcome of each request (forwarded or rejected, and the
\* forwarded headers) is the outcome of that request served alone, and the
\* configuration the handler shares is the one New was given.
C22_IsolatedRequests ==
    /\ config = arg.config
    /\ \A r \in 1..MaxRequests :
          inv[r].pc = "done" =>
              Outcome(inv[r]) = Outcome(ServeHTTP(config, NewInvocation(inv[r].arrival)))

\* two different requests, the first finished while the second is between
\* reading its token and parsing it
C22_Witness ==
    /\ inv[1].pc = "done" /\ inv[1].nextCalls = 1
    /\ inv[1].forwarded # inv[1].arrival
    /\ inv[2].pc = "extracted"
    /\ inv[2].arrival # inv[1].arrival

\* the text of a header value up to and including its last '.'
UpToLastDot(value) ==
    LET dots == {i \in 1..Len(value) : value[i] = Dot}
    IN  IF dots = {} THEN <<>>
        ELSE SubSeq(value, 1, CHOOSE i \in dots : \A j \in dots : j <= i)

\* two requests that are the same except for the third segment of the
\* token in the source header
SameButSignature(c, h1, h2) ==
    LET src == CanonicalMIMEHeaderKey(c.SourceHeader)
        v1 == HeaderGet(h1, c.SourceHeader)
        v2 == HeaderGet(h2, c.SourceHeader)
    IN  /\ DOMAIN h1 = DOMAIN h2
        /\ \A k \in DOMAIN h1 : k # src => h1[k] = h2[k]
        /\ src \in DOMAIN h1
        /\ Len(h1[src]) = 1 /\ Len(h2[src]) = 1
        /\ Dots(ExtractToken(v1, c.TokenPrefix)) = 2
        /\ Dots(ExtractToken(v2, c.TokenPrefix)) = 2
        /\ UpToLastDot(v1) = UpToLastDot(v2)

\* C26: the third segment of the token has no influence on the pipeline.
\* Two requests that are identical except for the content of that segment
\* (any text without '.', the empty text included) end the same way, both
\* forwarded or both rejected with the same response, and every header
\* other than the source header has the same forwarded value in both.
C26_SignatureIgnored ==
    \A r1 \in 1..MaxRequests : \A r2 \in 1..MaxRequests :
        (/\ inv[r1].pc = "done" /\ inv[r2].pc = "done"
         /\ SameButSignature(config, inv[r1].arrival, inv[r2].arrival))
        => /\ inv[r1].resp = inv[r2].resp
           /\ inv[r1].nextCalls = inv[r2].nextCalls
           /\ LET src == CanonicalMIMEHeaderKey(config.SourceHeader)
                  f1 == inv[r1].forwarded
                  f2 == inv[r2].forwarded
              IN  /\ DOMAIN f1 \ {src} = DOMAIN f2 \ {src}
                  /\ \A k \in DOMAIN f1 \ {src} : f1[k] = f2[k]

\* a token with the third segment "sig" and the same token with an empty
\* third segment were both decoded and forwarded with the mapped header
C26_Witness ==
    /\ inv[1].pc = "done" /\ inv[2].pc = "done"
    /\ HeaderGet(inv[1].arrival, HAuthorization)
          = Bearer \o Token(SegHeader, SegPayload, SegSig)
    /\ HeaderGet(inv[2].arrival, HAuthorization)
          = Bearer \o Token(SegHeader, SegPayload, <<>>)
    /\ SameButSignature(config, inv[1].arrival, inv[2].arrival)
    /\ inv[1].nextCalls = 1 /\ inv[2].nextCalls = 1
    /\ HeaderGet(inv[1].forwarded, HRole) = S(<<"x">>)
    /\ HeaderGet(inv[2].forwarded, HRole) = S(<<"x">>)
    /\ inv[1].forwarded # inv[2].forwarded

---------------------------------------------------------------------------
(* ServeHTTP run to its return: the goroutine that serves a request keeps  *)
(* being scheduled, so a step that is enabled is eventually taken.         *)

\* configurations with the default limits and one section
ServeConfigs ==
    { [BaseConfig EXCEPT !.Claims = claims, !.ContinueOnError = coe,
                         !.RemoveSourceHeader = coe, !.MaxHeaderSize = size] :
        claims \in { <<>>,
                     <<Mapping(KSub, HUserId, FALSE, FormatComma)>>,
                     <<Mapping(S(<<"a",".","b">>), HUserIdLower, TRUE, FormatJSON),
                       Mapping(KSub, HHostUpper, TRUE, <<>>),
                       Mapping(KAlg, HRole, TRUE, FormatComma)>> },
        coe \in BOOLEAN,
        size \in {DefaultMaxHeaderSize, MaxSizeBound} }

InitServe ==
    /\ pc = "new"
    /\ config \in ServeConfigs \cup {[BaseConfig EXCEPT !.Sections = <<>>]}
    /\ arg = NoCall
    /\ ret = NoCall
    /\ req = NoHeaders
    /\ arrival = NoHeaders
    /\ inv = NoInvocation

\* a step of Next is possible: New or Receive is, or ServeHTTP has not
\* returned.  This is ENABLED <<Next>>_vars: New and Receive change pc, and
\* every stage of ServeHTTP changes the invocation's position.
Running == pc \in {"new", "ready"} \/ (pc = "serving" /\ inv.pc # "done")

\* weak fairness of Next, WF_vars(Next), with its enabling condition
\* written as the state predicate Running
FairNext == []<>(~Running) \/ []<><<Next>>_vars

SpecServe == InitServe /\ [][Next]_vars /\ FairNext

\* how far an invocation has got: the stages in the order of the code
Position(c, v) ==
    IF v.pc = "start" THEN 0
    ELSE IF v.pc = "extracted" THEN 1
    ELSE IF v.pc = "decoded" THEN 1 + v.idx
    ELSE 3 + Len(c.Claims)

\* the next handler was called once and nothing was written to the response
Forwarded(v) == v.nextCalls = 1 /\ v.resp = NoResponse

\* a 401 was written and the next handler was not called
Rejected(v) == v.nextCalls = 0 /\ v.resp.status = 401 /\ v.forwarded = NoHeaders

\* C23: every invocation of ServeHTTP returns, and it returns with exactly
\* one of two outcomes: the next handler called exactly once, or a 401
\* written.  The next handler is never called twice and never after a
\* rejection; before the return nothing has been forwarded or written; no
\* stage is repeated (every step moves the invocation forward) and nothing
\* runs after the return.
C23_TerminatesOnce ==
    /\ [](pc = "serving" =>
            /\ inv.nextCalls <= 1
            /\ inv.pc = "done" => (Forwarded(inv) /\ ~Rejected(inv))
                                   \/ (Rejected(inv) /\ ~Forwarded(inv))
            /\ inv.pc # "done" => inv.nextCalls = 0 /\ inv.resp = NoResponse)
    /\ [][pc = "serving" =>
            /\ inv.pc # "done"
            /\ Position(config, inv') > Position(config, inv)]_vars
    /\ (pc = "serving") ~> (pc = "serving" /\ inv.pc = "done")

\* a request with three mappings, one of them failing, has been forwarded
C23_Witness ==
    /\ pc = "serving" /\ inv.pc = "done"
    /\ Len(config.Claims) = 3
    /\ Len(inv.trace) = 3
    /\ \E i \in 1..3 : inv.trace[i].outcome # "injected"
    /\ Forwarded(inv)

=============================================================================
